---- MODULE Spec2Model ----
(***************************************************************************)
(* Model of the summarization service of next-pdf (src/ai).                *)
(*                                                                         *)
(*  - the streaming pipeline Summarizer.generate_summary_stream with its   *)
(*    nested generator process_text and the coroutines it awaits           *)
(*    (services/summarizer.py, first Summarizer class, lines 116-404);     *)
(*  - TextChunker.chunk_text and its helpers (services/chunker.py).        *)
(*                                                                         *)
(* Texts of the pipeline are represented by their length and, for backend  *)
(* responses, by the call that produced them; the pipeline only ever takes *)
(* len() of a text, joins texts and passes them on.  Prompt lengths are    *)
(* those of style "bullet_points", language "en", no custom instructions.  *)
(* Texts of the chunker are sequences of characters over a small alphabet. *)
(***************************************************************************)
EXTENDS Bags, FiniteSets, Integers, Naturals, Sequences, TLC

(***************************************************************************)
(* Program constants                                                       *)
(***************************************************************************)
MAX_SINGLE_CHUNK_SIZE == 2000000
MAX_RECURSIVE_DEPTH == 3
MAX_CONCURRENT_CHUNKS == 5
MAX_RETRIES == 3

\* len() of the three prompt templates around the inserted text
SinglePromptBase == 563
ChunkPromptBase == 382
MergePromptBase == 193

\* TextChunker(max_chunk_size=12000, ...) of Summarizer.__init__
SummarizerChunkSize == 12000

(***************************************************************************)
(* Bounds of the model                                                     *)
(***************************************************************************)
\* chunks a first-level chunk_text call may return
MaxChunks == 6
\* chunks a chunk_text call of a recursive level may return
MaxDeepChunks == 1
\* failed backend attempts in one run
MaxFailures == 3
\* length of a short and of an oversized backend response
ShortResp == 40
LongResp == 2000001
\* chunk indices whose response may be the oversized one
LongRespIndices == {0}

\* TextChunker: longest text, largest max_chunk_size and overlap_size tried
MaxTextLen == 6
MaxChunkSize == 3
MaxOverlap == 1

\* merge_summaries: most lines of one summary
MaxItems == 11

\* generate_summary: most chunks of a text, words of a backend response
MaxSyncChunks == 3
SyncRespWords == 6

\* title extraction: longest title line tried
MaxTitle == 101

\* queue worker: messages delivered, log events of one summary stream
MaxMessages == 2
MaxStreamLogs == 1

\* lengths of the input text
TextLens == {100, MAX_SINGLE_CHUNK_SIZE, MAX_SINGLE_CHUNK_SIZE + 1}

VARIABLES
    model_configured,       \* self.model is not None
    chunk_text_awaitable,   \* self.chunker.chunk_text(...) evaluates to an awaitable
    pc,                     \* position of generate_summary_stream / process_text
    depth,                  \* depth of the running process_text call
    cur_len,                \* len(current_text)
    chunks,                 \* chunks: sequence of chunk lengths
    tasks,                  \* the coroutines of tasks[], one per chunk
    semaphore,              \* value of the asyncio.Semaphore of the batch
    results,                \* result list of asyncio.gather, None where not yet set
    merged_text,            \* the joined summaries, as the sequence of its pieces
    total_tokens,           \* total_tokens = {"prompt": _, "completion": _}
    final_summary,          \* final_summary of generate_summary_stream
    events,                 \* events delivered to the caller, in order
    rounds,                 \* process_text invocations so far
    failures,               \* failed backend attempts so far
    ledger,                 \* bag of the successful backend calls [plen, rlen]
    out_of_order,           \* some chunk completed before a chunk of lower index
    ck_pc,                  \* position of a TextChunker.chunk_text call
    ck_text,                \* text
    ck_max,                 \* self.max_chunk_size
    ck_overlap,             \* self.overlap_size
    ck_chunks,              \* the returned list
    mg_pc,                  \* position of a TextChunker.merge_summaries call
    mg_summaries,           \* summaries
    mg_style,               \* style
    mg_out,                 \* the returned text
    tt_pc,                  \* position of a title extraction
    tt_text,                \* final_summary / response_text before the extraction
    tt_hint,                \* title_hint of _parse_response
    tt_title,               \* title
    tt_content,             \* content of the result event / summary
    sy_pc,                  \* position of a synchronous generate_summary call
    sy_text,                \* text, as its length and its number of words
    sy_chunks,              \* chunks of _summarize_with_chunks, by number of words
    sy_i,                   \* i of the loop over the chunks
    sy_summaries,           \* chunk_summaries
    sy_title,               \* title
    sy_tokens,              \* total_prompt_tokens, total_completion_tokens, in tenths
    sy_out,                 \* what generate_summary returned or raised
    ex_pc,                  \* position of a pair of runs of the except branch
    ex_attempt,             \* attempt, the same in both runs
    ex_errors,              \* str(e) of the one run and of the other
    ex_out,                 \* what each run logged and did next
    worker                  \* the queue worker: position of callback, its counters and logs

pipeVars == <<model_configured, chunk_text_awaitable, pc, depth, cur_len, chunks,
              tasks, semaphore, results, merged_text, total_tokens, final_summary,
              events, rounds, failures, ledger, out_of_order>>

ckVars == <<ck_pc, ck_text, ck_max, ck_overlap, ck_chunks>>

mgVars == <<mg_pc, mg_summaries, mg_style, mg_out>>

ttVars == <<tt_pc, tt_text, tt_hint, tt_title, tt_content>>

syVars == <<sy_pc, sy_text, sy_chunks, sy_i, sy_summaries, sy_title, sy_tokens, sy_out>>

exVars == <<ex_pc, ex_attempt, ex_errors, ex_out>>

\* the state of the calls that are not part of a streaming run
calleeVars == <<ckVars, mgVars, ttVars, syVars, exVars, worker>>

vars == <<pipeVars, calleeVars>>

None == [src |-> "none", depth |-> 0, index |-> 0, len |-> 0]

(***************************************************************************)
(* Helpers                                                                 *)
(***************************************************************************)
Pow2(n) == IF n = 0 THEN 1 ELSE IF n = 1 THEN 2 ELSE IF n = 2 THEN 4 ELSE 8

\* len(str(n)) for the part numbers of a chunk prompt
Digits(n) == IF n < 10 THEN 1 ELSE IF n < 100 THEN 2 ELSE 3

RECURSIVE SumLen(_)
SumLen(s) == IF s = <<>> THEN 0 ELSE Head(s).len + SumLen(Tail(s))

\* len("\n\n".join(summaries))
JoinLen(s) == IF s = <<>> THEN 0 ELSE SumLen(s) + 2 * (Len(s) - 1)

\* int(len(x) / 4)
EstimateTokens(n) == n \div 4

SinglePromptLen(textLen) == SinglePromptBase + textLen

ChunkPromptLen(chunkLen, index, total) ==
    ChunkPromptBase + Digits(index + 1) + Digits(total) + chunkLen

MergePromptLen(summaries) == MergePromptBase + JoinLen(summaries)

\* `=` written for `+=`
AddTokensAssign(tok, plen, rlen) ==
    [prompt |-> EstimateTokens(plen), completion |-> EstimateTokens(rlen)]

\* the completion estimate computed from a stale read of the total
AddTokensDropCompletion(tok, plen, rlen) ==
    [prompt |-> tok.prompt + EstimateTokens(plen), completion |-> tok.completion]

AddTokens(tok, plen, rlen) ==
    [prompt |-> tok.prompt + EstimateTokens(plen),
     completion |-> tok.completion + EstimateTokens(rlen)]

LogEvent(msg) == [kind |-> "log", msg |-> msg]
ErrorEvent(msg) == [kind |-> "error", msg |-> msg]

RECURSIVE QueuedLogs(_)
QueuedLogs(n) == IF n = 0 THEN <<>> ELSE Append(QueuedLogs(n - 1), LogEvent("queued"))

\* lengths of the chunks a chunk_text call returns, by 0-based index
ChunkLenOf(i) == SummarizerChunkSize - 4 * i

\* responses the backend may give to the call for chunk `index`
RespLens(index) == IF index \in LongRespIndices THEN {ShortResp, LongResp} ELSE {ShortResp}

(***************************************************************************)
(* TextChunker (services/chunker.py).  A text is a sequence of characters  *)
(* over Alphabet: a letter, the space, the full stop and the newline.      *)
(***************************************************************************)
NL == "\n"
Alphabet == {"a", " ", ".", NL}

\* str.strip() and \s: the whitespace characters of the alphabet
IsSpace(c) == c \in {" ", NL}

\* [.!?] of sentence_pattern
IsSentenceEnd(c) == c \in {".", "!", "?"}

Min(a, b) == IF a < b THEN a ELSE b

\* s[i:j] for 0 <= i, j
Slice(s, i, j) == SubSeq(s, i + 1, Min(j, Len(s)))

RECURSIVE LStrip(_)
LStrip(s) == IF s # <<>> /\ IsSpace(Head(s)) THEN LStrip(Tail(s)) ELSE s

RECURSIVE RStrip(_)
RStrip(s) ==
    IF s # <<>> /\ IsSpace(s[Len(s)]) THEN RStrip(SubSeq(s, 1, Len(s) - 1)) ELSE s

\* str.strip()
Strip(s) == RStrip(LStrip(s))

\* text.split("\n\n"): acc is the part being read
RECURSIVE SplitParts(_, _)
SplitParts(s, acc) ==
    IF s = <<>> THEN <<acc>>
    ELSE IF Len(s) >= 2 /\ s[1] = NL /\ s[2] = NL
         THEN <<acc>> \o SplitParts(SubSeq(s, 3, Len(s)), <<>>)
         ELSE SplitParts(Tail(s), Append(acc, Head(s)))

RECURSIVE NonBlank(_)
NonBlank(parts) ==
    IF parts = <<>> THEN <<>>
    ELSE IF Strip(Head(parts)) # <<>>
         THEN <<Head(parts)>> \o NonBlank(Tail(parts))
         ELSE NonBlank(Tail(parts))

\* _split_by_separator(text, "\n\n")
SplitBySeparator(text) == NonBlank(SplitParts(text, <<>>))

\* re.split(r'(?<=[.!?])\s+', paragraph): acc is the sentence being read,
\* prev the character before s ("" at the start of the paragraph)
RECURSIVE SplitSentences(_, _, _)
SplitSentences(s, acc, prev) ==
    IF s = <<>> THEN <<acc>>
    ELSE IF IsSentenceEnd(prev) /\ IsSpace(Head(s))
         THEN <<acc>> \o SplitSentences(LStrip(s), <<>>, " ")
         ELSE SplitSentences(Tail(s), Append(acc, Head(s)), Head(s))

\* windows that follow one another without overlap
RECURSIVE ForceSplitNoOverlap(_, _, _, _)
ForceSplitNoOverlap(sentence, i, maxSize, overlap) ==
    IF i >= Len(sentence) THEN <<>>
    ELSE <<Slice(sentence, i, i + maxSize)>>
         \o ForceSplitNoOverlap(sentence, i + maxSize, maxSize, overlap)

\* for i in range(0, len(sentence), max_size - overlap): sentence[i:i + max_size]
RECURSIVE ForceSplit(_, _, _, _)
ForceSplit(sentence, i, maxSize, overlap) ==
    IF i >= Len(sentence) THEN <<>>
    ELSE <<Slice(sentence, i, i + maxSize)>>
         \o ForceSplit(sentence, i + (maxSize - overlap), maxSize, overlap)

\* the rest of _split_large_paragraph's loop over the sentences and its tail
RECURSIVE SplitLoop(_, _, _, _, _)
SplitLoop(sentences, out, current, maxSize, overlap) ==
    IF sentences = <<>>
    THEN IF current # <<>> THEN Append(out, Strip(current)) ELSE out
    ELSE LET sentence == Head(sentences)
             rest == Tail(sentences)
         IN IF Len(sentence) > maxSize
            THEN SplitLoop(rest,
                           (IF current # <<>> THEN Append(out, Strip(current)) ELSE out)
                               \o ForceSplit(sentence, 0, maxSize, overlap),
                           <<>>, maxSize, overlap)
            ELSE LET test_chunk == IF current # <<>>
                                   THEN current \o <<" ">> \o sentence
                                   ELSE sentence
                 IN IF Len(test_chunk) <= maxSize
                    THEN SplitLoop(rest, out, test_chunk, maxSize, overlap)
                    ELSE SplitLoop(rest,
                                   IF current # <<>> THEN Append(out, Strip(current)) ELSE out,
                                   sentence, maxSize, overlap)

\* _split_large_paragraph(paragraph)
SplitLargeParagraph(paragraph, maxSize, overlap) ==
    SplitLoop(SplitSentences(paragraph, <<>>, ""), <<>>, <<>>, maxSize, overlap)

\* s.rfind('. '): the 0-based index of the last ". ", -1 when there is none
RFindStop(s) ==
    LET hits == {i \in 0..(Len(s) - 2) : s[i + 1] = "." /\ s[i + 2] = " "}
    IN IF hits = {} THEN -1 ELSE CHOOSE i \in hits : \A j \in hits : j <= i

\* s.rfind(' ')
RFindSpace(s) ==
    LET hits == {i \in 0..(Len(s) - 1) : s[i + 1] = " "}
    IN IF hits = {} THEN -1 ELSE CHOOSE i \in hits : \A j \in hits : j <= i

\* text[-overlap:]; text[-0:] is the whole text
LastChars(text, overlap) ==
    IF overlap = 0 THEN text ELSE SubSeq(text, Len(text) - overlap + 1, Len(text))

\* _get_overlap(text)
GetOverlap(text, overlap) ==
    IF text = <<>> \/ Len(text) < overlap THEN <<>>
    ELSE LET overlap_text == LastChars(text, overlap)
             last_period == RFindStop(overlap_text)
             last_space == RFindSpace(overlap_text)
         IN IF last_period > 0 THEN Slice(overlap_text, last_period + 2, Len(overlap_text))
            ELSE IF last_space > 0 THEN Slice(overlap_text, last_space + 1, Len(overlap_text))
            ELSE overlap_text

\* the new chunk started with the overlap alone
SeedChunkWithoutPara(current, para, overlap) == GetOverlap(current, overlap)

\* current_chunk = overlap + para if overlap else para
SeedChunk(current, para, overlap) == GetOverlap(current, overlap) \o para

\* chunk_text's loop over the paragraphs and its tail
RECURSIVE ChunkLoop(_, _, _, _, _)
ChunkLoop(paragraphs, out, current, maxSize, overlap) ==
    IF paragraphs = <<>>
    THEN IF current # <<>> THEN Append(out, Strip(current)) ELSE out
    ELSE LET para == Head(paragraphs)
             rest == Tail(paragraphs)
             closed == IF current # <<>> THEN Append(out, Strip(current)) ELSE out
         IN IF Len(para) > maxSize
            THEN ChunkLoop(rest, closed \o SplitLargeParagraph(para, maxSize, overlap),
                           <<>>, maxSize, overlap)
            ELSE LET test_chunk == IF current # <<>>
                                   THEN current \o <<NL, NL>> \o para
                                   ELSE para
                 IN IF Len(test_chunk) <= maxSize
                    THEN ChunkLoop(rest, out, test_chunk, maxSize, overlap)
                    ELSE ChunkLoop(rest, closed, SeedChunk(current, para, overlap),
                                   maxSize, overlap)

\* the small text stripped like the chunks of the loop
SmallTextStripped(text) == IF text # <<>> THEN <<Strip(text)>> ELSE <<>>

\* the small text returned as [text] whether it is empty or not
SmallTextKeepingEmpty(text) == <<text>>

\* return [text] if text else []
SmallText(text) == IF text # <<>> THEN <<text>> ELSE <<>>

\* chunk_text(text)
ChunkText(text, maxSize, overlap) ==
    IF text = <<>> \/ Len(text) <= maxSize
    THEN SmallText(text)
    ELSE ChunkLoop(SplitBySeparator(text), <<>>, <<>>, maxSize, overlap)

Texts == UNION {[1..n -> Alphabet] : n \in 0..MaxTextLen}

(***************************************************************************)
(* TextChunker.merge_summaries and its helpers (services/chunker.py).      *)
(* Bullet and MiddleDot stand for the one-character strings U+2022 and     *)
(* U+00B7.                                                                 *)
(***************************************************************************)
Bullet == "bullet"
MiddleDot == "middot"

UpperCase == <<"A", "B", "C", "D", "E", "F", "G", "H", "I", "J", "K", "L", "M",
               "N", "O", "P", "Q", "R", "S", "T", "U", "V", "W", "X", "Y", "Z">>

LowerCase == <<"a", "b", "c", "d", "e", "f", "g", "h", "i", "j", "k", "l", "m",
               "n", "o", "p", "q", "r", "s", "t", "u", "v", "w", "x", "y", "z">>

DigitChars == {"0", "1", "2", "3", "4", "5", "6", "7", "8", "9"}

\* c.lower()
Lower(c) ==
    IF \E i \in DOMAIN UpperCase : UpperCase[i] = c
    THEN LowerCase[CHOOSE i \in DOMAIN UpperCase : UpperCase[i] = c]
    ELSE c

\* \w
IsWordChar(c) ==
    \/ \E i \in DOMAIN UpperCase : UpperCase[i] = c \/ LowerCase[i] = c
    \/ c \in DigitChars
    \/ c = "_"

\* s.lower()
LowerText(s) == [i \in DOMAIN s |-> Lower(s[i])]

\* re.sub(r'[^\w\s]', '', s)
RECURSIVE RemovePunctuation(_)
RemovePunctuation(s) ==
    IF s = <<>> THEN <<>>
    ELSE IF IsWordChar(Head(s)) \/ IsSpace(Head(s))
         THEN <<Head(s)>> \o RemovePunctuation(Tail(s))
         ELSE RemovePunctuation(Tail(s))

\* text.split('\n'): the pieces between the line breaks
SplitLines(s) ==
    LET breaks == {i \in DOMAIN s : s[i] = NL}
        n == Cardinality(breaks)
        BreakAt(k) ==
            IF k = 0 THEN 0
            ELSE IF k = n + 1 THEN Len(s) + 1
            ELSE CHOOSE b \in breaks : Cardinality({a \in breaks : a <= b}) = k
    IN [k \in 1..(n + 1) |-> SubSeq(s, BreakAt(k - 1) + 1, BreakAt(k) - 1)]

\* sep.join(parts)
RECURSIVE Join(_, _)
Join(parts, sep) ==
    IF parts = <<>> THEN <<>>
    ELSE IF Len(parts) = 1 THEN Head(parts)
    ELSE Head(parts) \o sep \o Join(Tail(parts), sep)

StartsWith(s, prefix) == Len(s) >= Len(prefix) /\ SubSeq(s, 1, Len(prefix)) = prefix

EndsWith(s, suffix) ==
    Len(s) >= Len(suffix) /\ SubSeq(s, Len(s) - Len(suffix) + 1, Len(s)) = suffix

\* line.startswith(('• ', '- ', '* ', '· '))
BulletPrefixes == {<<Bullet, " ">>, <<"-", " ">>, <<"*", " ">>, <<MiddleDot, " ">>}

RECURSIVE LeadingDigits(_)
LeadingDigits(s) ==
    IF s # <<>> /\ Head(s) \in DigitChars THEN 1 + LeadingDigits(Tail(s)) ELSE 0

\* re.match(r'^\d+\.\s', line)
IsNumbered(line) ==
    LET d == LeadingDigits(line)
    IN d >= 1 /\ Len(line) >= d + 2 /\ line[d + 1] = "." /\ IsSpace(line[d + 2])

\* re.sub(r'^\d+\.\s*', '', line)
StripNumber(line) ==
    LET d == LeadingDigits(line)
    IN IF d >= 1 /\ Len(line) >= d + 1 /\ line[d + 1] = "."
       THEN LStrip(SubSeq(line, d + 2, Len(line)))
       ELSE line

\* the loop of _extract_bullets over the lines
RECURSIVE BulletsOfLines(_)
BulletsOfLines(lines) ==
    IF lines = <<>> THEN <<>>
    ELSE LET line == Strip(Head(lines))
         IN IF \E prefix \in BulletPrefixes : StartsWith(line, prefix)
            THEN <<Strip(SubSeq(line, 3, Len(line)))>> \o BulletsOfLines(Tail(lines))
            ELSE IF IsNumbered(line)
            THEN <<StripNumber(line)>> \o BulletsOfLines(Tail(lines))
            ELSE BulletsOfLines(Tail(lines))

\* _extract_bullets(text)
ExtractBullets(text) == BulletsOfLines(SplitLines(text))

\* all_bullets of merge_summaries
RECURSIVE AllBullets(_)
AllBullets(summaries) ==
    IF summaries = <<>> THEN <<>>
    ELSE ExtractBullets(Head(summaries)) \o AllBullets(Tail(summaries))

\* normalized of _deduplicate_bullets
Normalized(bullet) == RemovePunctuation(Strip(LowerText(bullet)))

\* len(normalized) > 10
MinNormalizedLen == 10

\* a bullet is kept whatever its length
KeepsBulletAnyLength(normalized, seen) == normalized \notin seen

\* normalized not in seen_normalized and len(normalized) > 10
KeepsBullet(normalized, seen) ==
    normalized \notin seen /\ Len(normalized) > MinNormalizedLen

\* the loop of _deduplicate_bullets
RECURSIVE DeduplicateLoop(_, _, _)
DeduplicateLoop(bullets, unique, seen) ==
    IF bullets = <<>> THEN unique
    ELSE LET normalized == Normalized(Head(bullets))
         IN IF KeepsBullet(normalized, seen)
            THEN DeduplicateLoop(Tail(bullets), Append(unique, Head(bullets)),
                                 seen \cup {normalized})
            ELSE DeduplicateLoop(Tail(bullets), unique, seen)

\* _deduplicate_bullets(bullets)
DeduplicateBullets(bullets) == DeduplicateLoop(bullets, <<>>, {})

\* unique_bullets[:20]
BulletLimit == 20

\* the slice left out
FirstBulletsAll(unique) == unique

FirstBullets(unique) == SubSeq(unique, 1, Min(BulletLimit, Len(unique)))

\* "\n".join(f"• {b}" for b in unique_bullets[:20])
BulletMerge(summaries) ==
    LET kept == FirstBullets(DeduplicateBullets(AllBullets(summaries)))
    IN Join([i \in DOMAIN kept |-> <<Bullet, " ">> \o kept[i]], <<NL>>)

\* line.startswith('## ') or line.startswith('**') and line.endswith('**')
IsHeader(line) ==
    \/ StartsWith(line, <<"#", "#", " ">>)
    \/ StartsWith(line, <<"*", "*">>) /\ EndsWith(line, <<"*", "*">>)

RECURSIVE LStripChars(_, _)
LStripChars(s, cs) == IF s # <<>> /\ Head(s) \in cs THEN LStripChars(Tail(s), cs) ELSE s

RECURSIVE RStripChars(_, _)
RStripChars(s, cs) ==
    IF s # <<>> /\ s[Len(s)] \in cs THEN RStripChars(SubSeq(s, 1, Len(s) - 1), cs) ELSE s

\* line.strip('#* ')
SectionName(line) == RStripChars(LStripChars(line, {"#", "*", " "}), {"#", "*", " "})

\* sections[current_section].extend(current_content), the key created when new;
\* sections is the dict as the sequence of its items in insertion order
ExtendSection(sections, name, content) ==
    IF \E i \in DOMAIN sections : sections[i].name = name
    THEN [i \in DOMAIN sections |->
             IF sections[i].name = name
             THEN [name |-> name, content |-> sections[i].content \o content]
             ELSE sections[i]]
    ELSE Append(sections, [name |-> name, content |-> content])

\* if current_section and current_content: ... (<<>> is None or '')
CloseSection(sections, current_section, current_content) ==
    IF current_section # <<>> /\ current_content # <<>>
    THEN ExtendSection(sections, current_section, current_content)
    ELSE sections

\* elif current_content: other_content.extend(current_content), after the last line
Leftover(current_section, current_content) ==
    IF current_section # <<>> /\ current_content # <<>> THEN <<>> ELSE current_content

\* the loop of _merge_structured_summaries over the lines of one summary and the
\* handling of its last section
RECURSIVE SummaryLines(_, _, _, _, _)
SummaryLines(lines, sections, other, current_section, current_content) ==
    IF lines = <<>>
    THEN [sections |-> CloseSection(sections, current_section, current_content),
          other |-> other \o Leftover(current_section, current_content)]
    ELSE IF IsHeader(Head(lines))
         THEN SummaryLines(Tail(lines),
                           CloseSection(sections, current_section, current_content),
                           other, SectionName(Head(lines)), <<>>)
         ELSE SummaryLines(Tail(lines), sections, other, current_section,
                           Append(current_content, Head(lines)))

\* the loop of _merge_structured_summaries over the summaries
RECURSIVE StructuredLoop(_, _, _)
StructuredLoop(summaries, sections, other) ==
    IF summaries = <<>> THEN [sections |-> sections, other |-> other]
    ELSE LET r == SummaryLines(SplitLines(Head(summaries)), sections, other,
                               <<>>, <<>>)
         IN StructuredLoop(Tail(summaries), r.sections, r.other)

\* content[:50] and other_content[:30]
SectionLimit == 50
OtherLimit == 30

\* output_parts of the sections
RECURSIVE SectionParts(_)
SectionParts(sections) ==
    IF sections = <<>> THEN <<>>
    ELSE << <<"#", "#", " ">> \o Head(sections).name,
            Join(SubSeq(Head(sections).content, 1,
                        Min(SectionLimit, Len(Head(sections).content))), <<NL>>) >>
         \o SectionParts(Tail(sections))

\* _merge_structured_summaries(summaries)
MergeStructuredSummaries(summaries) ==
    LET r == StructuredLoop(summaries, <<>>, <<>>)
        parts == SectionParts(r.sections)
                 \o (IF r.other # <<>>
                     THEN <<Join(SubSeq(r.other, 1, Min(OtherLimit, Len(r.other))), <<NL>>)>>
                     ELSE <<>>)
    IN Join(parts, <<NL, NL>>)

\* the dispatch on style of merge_summaries, lines 166-186
MergeByStyle(summaries, style) ==
    IF style = "bullet_points" THEN BulletMerge(summaries)
    ELSE IF style \in {"paragraph", "executive"} THEN Join(summaries, <<NL, NL>>)
    ELSE IF style \in {"detailed", "academic"} THEN MergeStructuredSummaries(summaries)
    ELSE Join(summaries, <<NL, NL, "-", "-", "-", NL, NL>>)

\* the two early returns left out
MergeSummariesNoShortcut(summaries, style) == MergeByStyle(summaries, style)

\* merge_summaries(summaries, style)
MergeSummaries(summaries, style) ==
    IF summaries = <<>> THEN <<>>
    ELSE IF Len(summaries) = 1 THEN summaries[1]
    ELSE MergeByStyle(summaries, style)

(***************************************************************************)
(* The summaries merge_summaries is called with: lines of five shapes,     *)
(* numbered k so that two lines of the same k name the same item, and a    *)
(* summary with headings.                                                  *)
(***************************************************************************)
Xs(k) == [j \in 1..k |-> "x"]

ItemText(k) == <<"i", "t", "e", "m", " ", "n", "u", "m", "b", "e", "r", " ">> \o Xs(k)

SummaryLine(shape, k) ==
    IF shape = "dash" THEN <<"-", " ">> \o ItemText(k)
    ELSE IF shape = "star"
    THEN <<"*", " ", "I", "t", "e", "m", " ", "N", "u", "m", "b", "e", "r", " ">>
         \o Xs(k) \o <<"!">>
    ELSE IF shape = "numbered" THEN <<"1", ".", " ">> \o ItemText(k)
    ELSE IF shape = "short" THEN <<Bullet, " ", "o", "k">> \o Xs(k)
    ELSE ItemText(k)

Shapes == {"dash", "star", "numbered", "short", "text", "sections"}

SummaryText(shape, from, n) ==
    LET lines == [i \in 1..n |->
                     SummaryLine(IF shape = "sections" THEN "dash" ELSE shape, from + i - 1)]
    IN IF shape = "sections"
       THEN Join(<< ItemText(from), <<"#", "#", " ", "s">> >> \o lines
                 \o << <<"*", "*", "t", "*", "*">>, ItemText(from + n) >>, <<NL>>)
       ELSE Join(lines, <<NL>>)

SummaryLists ==
    {<<>>}
    \cup {<<SummaryText(sh, 1, n)>> : sh \in Shapes, n \in 0..MaxItems}
    \cup {<<SummaryText(sh[1], 1, n[1]), SummaryText(sh[2], n[2], n[3])>> :
            sh \in Shapes \X {"dash", "star", "short", "sections"},
            n \in {m \in (0..MaxItems) \X (1..(MaxItems + 1)) \X (0..MaxItems) :
                      m[2] \in {1, m[1], m[1] + 1}}}

Styles == {"bullet_points", "paragraph", "detailed", "custom"}

(***************************************************************************)
(* Title extraction: generate_summary_stream, lines 240-246, and           *)
(* Summarizer._parse_response of the synchronous path (summarizer.py).     *)
(***************************************************************************)
TitleMarker == <<"T", "I", "T", "L", "E", ":">>
SummaryMarker == <<"S", "U", "M", "M", "A", "R", "Y", ":">>
DefaultTitle == <<"D", "o", "c", "u", "m", "e", "n", "t", " ",
                  "S", "u", "m", "m", "a", "r", "y">>

\* the 1-based places where sub occurs in s
Occurrences(s, sub) ==
    {i \in 1..(Len(s) - Len(sub) + 1) : SubSeq(s, i, i + Len(sub) - 1) = sub}

\* sub in s
Contains(s, sub) == Occurrences(s, sub) # {}

\* s.split(sep, 1)
SplitOnce(s, sep) ==
    IF ~Contains(s, sep) THEN <<s>>
    ELSE LET i == CHOOSE i \in Occurrences(s, sep) : \A j \in Occurrences(s, sep) : i <= j
         IN <<SubSeq(s, 1, i - 1), SubSeq(s, i + Len(sep), Len(s))>>

\* s.replace(sub, ""): the occurrences removed from left to right
RECURSIVE RemoveAll(_, _)
RemoveAll(s, sub) ==
    IF ~Contains(s, sub) THEN s
    ELSE LET parts == SplitOnce(s, sub) IN parts[1] \o RemoveAll(parts[2], sub)

\* s.split("\n")[0]
FirstLine(s) == SplitLines(s)[1]

\* [:100]
TitleLimit == 100

\* the title cut like _parse_response cuts it
StreamTitleCut(part) ==
    SubSeq(FirstLine(Strip(RemoveAll(part, TitleMarker))), 1,
           Min(TitleLimit, Len(FirstLine(Strip(RemoveAll(part, TitleMarker))))))

\* parts[0].replace("TITLE:", "").strip().split("\n")[0]
StreamTitle(part) == FirstLine(Strip(RemoveAll(part, TitleMarker)))

\* the whole text stripped when the markers are missing
ExtractTitleStripping(text) ==
    IF Contains(text, TitleMarker) /\ Len(SplitOnce(text, SummaryMarker)) = 2
    THEN [title |-> StreamTitle(SplitOnce(text, SummaryMarker)[1]),
          content |-> Strip(SplitOnce(text, SummaryMarker)[2])]
    ELSE [title |-> DefaultTitle, content |-> Strip(text)]

\* generate_summary_stream, lines 240-246
ExtractTitle(text) ==
    IF Contains(text, TitleMarker) /\ Len(SplitOnce(text, SummaryMarker)) = 2
    THEN [title |-> StreamTitle(SplitOnce(text, SummaryMarker)[1]),
          content |-> Strip(SplitOnce(text, SummaryMarker)[2])]
    ELSE [title |-> DefaultTitle, content |-> text]

\* title_lines[0].strip()[:100]
ParsedTitle(part) ==
    LET line == Strip(FirstLine(Strip(RemoveAll(part, TitleMarker))))
    IN SubSeq(line, 1, Min(TitleLimit, Len(line)))

\* _parse_response(response_text, title_hint); <<>> is the title_hint None or ''
ParseResponse(text, hint) ==
    IF Contains(text, TitleMarker) /\ Len(SplitOnce(text, SummaryMarker)) = 2
    THEN [title |-> ParsedTitle(SplitOnce(text, SummaryMarker)[1]),
          content |-> Strip(SplitOnce(text, SummaryMarker)[2])]
    ELSE [title |-> IF hint # <<>> THEN hint ELSE DefaultTitle, content |-> text]

\* the texts a title is extracted from
TitleLine(n) == IF n = 0 THEN <<>> ELSE <<"Q">> \o Xs(n - 1)

TerminalTexts ==
    {pre \o (IF t THEN TitleMarker \o <<" ">> ELSE <<>>) \o TitleLine(n) \o mid
         \o (IF m THEN SummaryMarker ELSE <<>>) \o body :
       pre \in {<<>>, <<" ">>, <<"N", "b", NL>>},
       t \in BOOLEAN,
       n \in {0, 1, TitleLimit, MaxTitle},
       mid \in {<<NL>>, <<" ", NL, "m", "o", "r", "e", NL>>},
       m \in BOOLEAN,
       body \in {<<>>, <<NL, "B", "o", "d", "y", ".">>, <<" ", "B", ".", " ", NL>>,
                 <<"B", " ">> \o SummaryMarker \o <<"C">>}}

(***************************************************************************)
(* No call of the kind is under way.                                       *)
(***************************************************************************)
IdleChunker ==
    /\ ck_pc = "idle"
    /\ ck_text = <<>>
    /\ ck_max = 0
    /\ ck_overlap = 0
    /\ ck_chunks = <<>>

IdleMerge ==
    /\ mg_pc = "idle"
    /\ mg_summaries = <<>>
    /\ mg_style = "bullet_points"
    /\ mg_out = <<>>

IdleTitle ==
    /\ tt_pc = "idle"
    /\ tt_text = <<>>
    /\ tt_hint = <<>>
    /\ tt_title = <<>>
    /\ tt_content = <<>>

IdleSync ==
    /\ sy_pc = "idle"
    /\ sy_text = [len |-> 0, words |-> 0]
    /\ sy_chunks = <<>>
    /\ sy_i = 0
    /\ sy_summaries = <<>>
    /\ sy_title = "default"
    /\ sy_tokens = [prompt |-> 0, completion |-> 0]
    /\ sy_out = [kind |-> "none"]

IdleExcept ==
    /\ ex_pc = "idle"
    /\ ex_attempt = 0
    /\ ex_errors = <<>>
    /\ ex_out = <<>>

IdleWorker ==
    worker = [pc |-> "idle", has_stream |-> FALSE, tag |-> 0, stream |-> <<>>,
              published |-> <<>>, raised |-> {}, acked |-> <<>>]

IdlePipeline ==
    /\ chunk_text_awaitable = FALSE
    /\ pc = "idle"
    /\ depth = 0
    /\ cur_len = 0
    /\ chunks = <<>>
    /\ tasks = <<>>
    /\ semaphore = 0
    /\ results = <<>>
    /\ merged_text = <<>>
    /\ total_tokens = [prompt |-> 0, completion |-> 0]
    /\ final_summary = None
    /\ events = <<>>
    /\ rounds = 0
    /\ failures = 0
    /\ ledger = EmptyBag
    /\ out_of_order = FALSE

(***************************************************************************)
(* Initial state: a Summarizer after __init__, generate_summary_stream     *)
(* called with a text of one of the lengths of TextLens.                   *)
(***************************************************************************)
Init ==
    /\ model_configured \in BOOLEAN
    /\ chunk_text_awaitable \in BOOLEAN
    /\ pc = "start"
    /\ depth = 0
    /\ cur_len \in TextLens
    /\ chunks = <<>>
    /\ tasks = <<>>
    /\ semaphore = 0
    /\ results = <<>>
    /\ merged_text = <<>>
    /\ total_tokens = [prompt |-> 0, completion |-> 0]
    /\ final_summary = None
    /\ events = <<>>
    /\ rounds = 0
    /\ failures = 0
    /\ ledger = EmptyBag
    /\ out_of_order = FALSE
    /\ IdleChunker
    /\ IdleMerge
    /\ IdleTitle
    /\ IdleSync
    /\ IdleExcept
    /\ IdleWorker

(***************************************************************************)
(* generate_summary_stream, lines 169-176: the model guard, the token      *)
(* accumulator, the first log and the first call of process_text.          *)
(***************************************************************************)
\* a stream that starts whether a model is configured or not
NoModelIgnored(configured) == FALSE

\* if not self.model
NoModel(configured) == ~configured

StartNoModel ==
    /\ pc = "start"
    /\ NoModel(model_configured)
    /\ events' = Append(events, ErrorEvent("Gemini API key not configured"))
    /\ pc' = "end"
    /\ UNCHANGED calleeVars
    /\ UNCHANGED <<model_configured, chunk_text_awaitable, depth, cur_len, chunks, tasks,
                   semaphore, results, merged_text, total_tokens, final_summary,
                   rounds, failures, ledger, out_of_order>>

Start ==
    /\ pc = "start"
    /\ ~NoModel(model_configured)
    /\ total_tokens' = [prompt |-> 0, completion |-> 0]
    /\ events' = Append(events, LogEvent("analyzing"))
    /\ depth' = 1
    /\ pc' = "entry"
    /\ UNCHANGED calleeVars
    /\ UNCHANGED <<model_configured, chunk_text_awaitable, cur_len, chunks, tasks,
                   semaphore, results, merged_text, final_summary,
                   rounds, failures, ledger, out_of_order>>

(***************************************************************************)
(* process_text, lines 180-193: the entry checks.  Both Direct branches    *)
(* leave the generator awaiting _summarize_single_async; the third leaves  *)
(* it at the await of line 194.                                            *)
(***************************************************************************)
\* the depth check left out
EntryBranchNoDepth(d, textLen) ==
    IF textLen <= MAX_SINGLE_CHUNK_SIZE THEN "single" ELSE "chunking"

EntryBranch(d, textLen) ==
    IF d > MAX_RECURSIVE_DEPTH THEN "max_depth"
    ELSE IF textLen <= MAX_SINGLE_CHUNK_SIZE THEN "single"
    ELSE "chunking"

Entry ==
    /\ pc = "entry"
    /\ rounds' = rounds + 1
    /\ LET b == EntryBranch(depth, cur_len) IN
         /\ events' = Append(events, LogEvent(b))
         /\ pc' = IF b = "chunking" THEN "chunking" ELSE "direct_call"
    /\ UNCHANGED calleeVars
    /\ UNCHANGED <<model_configured, chunk_text_awaitable, depth, cur_len, chunks, tasks,
                   semaphore, results, merged_text, total_tokens, final_summary,
                   failures, ledger, out_of_order>>

(***************************************************************************)
(* Title extraction and the result event, lines 233-255, reached when      *)
(* process_text has yielded its final_text and ended.                      *)
(***************************************************************************)
ResultEvent(text, tok) ==
    [kind |-> "result", content |-> text,
     prompt_tokens |-> tok.prompt, completion_tokens |-> tok.completion]

\* yield {"final_text": res}, lines 183, 189 and 231
FinalTextEvent(text) == [kind |-> "final_text", content |-> text]

\* a loop that yields every event of process_text on
DeliverAll(evs, event) == Append(evs, event)

\* the loop of lines 234-238 over the events of process_text: a final_text
\* event is kept as final_summary, any other event is yielded to the caller
Deliver(evs, event) == IF event.kind = "final_text" THEN evs ELSE Append(evs, event)

(***************************************************************************)
(* _summarize_single_async, lines 296-305, awaited at lines 182 and 188:   *)
(* one backend call, no retry.  A response adds its estimates and becomes  *)
(* the final_text; a failure propagates to the handler of lines 257-259.   *)
(***************************************************************************)
DirectReturn ==
    /\ pc = "direct_call"
    /\ \E rlen \in {ShortResp, LongResp} :
         LET res == [src |-> "single", depth |-> depth, index |-> 0, len |-> rlen]
             tok == AddTokens(total_tokens, SinglePromptLen(cur_len), rlen)
         IN /\ total_tokens' = tok
            /\ ledger' = ledger (+) SetToBag({[plen |-> SinglePromptLen(cur_len), rlen |-> rlen]})
            /\ final_summary' = res
            /\ events' = Append(Deliver(events, FinalTextEvent(res)), ResultEvent(res, tok))
    /\ pc' = "end"
    /\ UNCHANGED calleeVars
    /\ UNCHANGED <<model_configured, chunk_text_awaitable, depth, cur_len, chunks, tasks,
                   semaphore, results, merged_text, rounds, failures, out_of_order>>

DirectFail ==
    /\ pc = "direct_call"
    /\ failures < MaxFailures
    /\ failures' = failures + 1
    /\ events' = Append(events, ErrorEvent("backend"))
    /\ pc' = "end"
    /\ UNCHANGED calleeVars
    /\ UNCHANGED <<model_configured, chunk_text_awaitable, depth, cur_len, chunks, tasks,
                   semaphore, results, merged_text, total_tokens, final_summary,
                   rounds, ledger, out_of_order>>

(***************************************************************************)
(* process_text, line 194: `await self.chunker.chunk_text(current_text)`.  *)
(* TextChunker.chunk_text (chunker.py:34) is a plain method returning a    *)
(* list, and awaiting a list raises TypeError, which the handler of lines  *)
(* 257-259 turns into an error event.  With a chunker whose chunk_text     *)
(* returns an awaitable the generator goes on with the chunk list.         *)
(***************************************************************************)
ChunkingTypeError ==
    /\ pc = "chunking"
    /\ ~chunk_text_awaitable
    /\ events' = Append(events, ErrorEvent("object list can't be used in 'await' expression"))
    /\ pc' = "end"
    /\ UNCHANGED calleeVars
    /\ UNCHANGED <<model_configured, chunk_text_awaitable, depth, cur_len, chunks, tasks,
                   semaphore, results, merged_text, total_tokens, final_summary,
                   rounds, failures, ledger, out_of_order>>

NewTask == [st |-> "wait", attempt |-> 0, waits |-> <<>>, calls |-> 0]

(***************************************************************************)
(* process_text, lines 194-211 up to the await of gather: the chunk list   *)
(* (any number of chunks up to the bound), the "Created" log, a fresh      *)
(* Semaphore(MAX_CONCURRENT_CHUNKS), one coroutine and one "Queued" log    *)
(* per chunk in index order, and gather scheduling them all.               *)
(***************************************************************************)
Chunking ==
    /\ pc = "chunking"
    /\ chunk_text_awaitable
    /\ \E n \in 0..(IF depth = 1 THEN MaxChunks ELSE MaxDeepChunks) :
         /\ chunks' = [i \in 1..n |-> ChunkLenOf(i - 1)]
         /\ tasks' = [i \in 1..n |-> NewTask]
         /\ results' = [i \in 1..n |-> None]
         /\ events' = Append(events, LogEvent("created")) \o QueuedLogs(n)
    /\ semaphore' = MAX_CONCURRENT_CHUNKS
    /\ pc' = "gather"
    /\ UNCHANGED calleeVars
    /\ UNCHANGED <<model_configured, chunk_text_awaitable, depth, cur_len,
                   merged_text, total_tokens, final_summary, rounds, failures, ledger,
                   out_of_order>>

(***************************************************************************)
(* _summarize_chunk_async, line 319: `async with semaphore`, then the      *)
(* first backend call of the retry loop (line 340) is issued.  gather      *)
(* starts the coroutines in index order and the semaphore wakes waiters in *)
(* the order they asked, so slots are taken in index order.                *)
(***************************************************************************)
\* a gather that cancels the other awaitables once one of them has raised
GatherCancelsOnRaise(ts) == \E i \in DOMAIN ts : ts[i].st = "failed"

\* asyncio.gather(*tasks) without return_exceptions, line 211: an awaitable that
\* raises does not cancel the others, which keep running on the event loop
GatherCancels(ts) == FALSE

\* a limiter that lets one coroutine too many in
CanAcquireOneMore(sem) == sem >= 0

\* a limiter that never blocks
CanAcquireAlways(sem) == TRUE

CanAcquire(sem) == sem > 0

TaskAcquire(i) ==
    /\ tasks[i].st = "wait"
    /\ ~GatherCancels(tasks)
    /\ \A j \in 1..(i - 1) : tasks[j].st # "wait"
    /\ CanAcquire(semaphore)
    /\ semaphore' = semaphore - 1
    /\ tasks' = [tasks EXCEPT ![i].st = "call", ![i].calls = 1]
    /\ UNCHANGED calleeVars
    /\ UNCHANGED <<model_configured, chunk_text_awaitable, pc, depth, cur_len, chunks,
                   results, merged_text, total_tokens, final_summary, events,
                   rounds, failures, ledger, out_of_order>>

\* results collected in the order the calls complete
StoreResultByCompletion(res, i, text) ==
    LET k == CHOOSE k \in DOMAIN res : res[k] = None /\ \A j \in 1..(k - 1) : res[j] # None
    IN [res EXCEPT ![k] = text]

\* asyncio.gather hands back the results by position in tasks[]
StoreResult(res, i, text) == [res EXCEPT ![i] = text]

(***************************************************************************)
(* _summarize_chunk_async, lines 340-346: the backend call returns; the    *)
(* estimates are added, the text is returned and the semaphore released.   *)
(***************************************************************************)
BackendReturn(i) ==
    /\ tasks[i].st = "call"
    /\ ~GatherCancels(tasks)
    /\ \E rlen \in RespLens(i - 1) :
         LET plen == ChunkPromptLen(chunks[i], i - 1, Len(chunks))
             text == [src |-> "chunk", depth |-> depth, index |-> i - 1, len |-> rlen]
         IN /\ total_tokens' = AddTokens(total_tokens, plen, rlen)
            /\ ledger' = ledger (+) SetToBag({[plen |-> plen, rlen |-> rlen]})
            /\ results' = StoreResult(results, i, text)
    /\ tasks' = [tasks EXCEPT ![i].st = "done"]
    /\ semaphore' = semaphore + 1
    /\ out_of_order' = (out_of_order \/ \E j \in 1..(i - 1) : tasks[j].st # "done")
    /\ UNCHANGED calleeVars
    /\ UNCHANGED <<model_configured, chunk_text_awaitable, pc, depth, cur_len, chunks,
                   merged_text, final_summary, events, rounds, failures>>

\* a constant wait of 2 s
WaitTimeConstant(attempt) == 2

\* the exponent taken one too high
WaitTimeOffByOne(attempt) == Pow2(attempt + 1) * 2

\* wait_time = (2 ** attempt) * 2
WaitTime(attempt) == Pow2(attempt) * 2

\* if attempt < MAX_RETRIES - 1
RetryAgain(attempt) == attempt < MAX_RETRIES - 1

\* texts of the exceptions a backend call may raise
ErrorTexts ==
    {<<"H", "T", "T", "P", " ", "4", "2", "9">>,
     <<"T", "o", "o", " ", "M", "a", "n", "y", " ", "R", "e", "q", "u", "e", "s", "t", "s">>,
     <<"Q", "u", "o", "t", "a", " ", "e", "x", "c", "e", "e", "d", "e", "d">>,
     <<"t", "i", "m", "e", "o", "u", "t">>,
     <<"5", "0", "0", " ", "e", "r", "r", "o", "r">>}

\* is_rate_limit = "429" in str(e) or "Too Many Requests" in str(e)
\*                 or "quota" in str(e).lower()
IsRateLimit(text) ==
    \/ Contains(text, <<"4", "2", "9">>)
    \/ Contains(text, <<"T", "o", "o", " ", "M", "a", "n", "y", " ", "R", "e", "q", "u", "e", "s", "t", "s">>)
    \/ Contains(LowerText(text), <<"q", "u", "o", "t", "a">>)

\* a longer sleep after a rate-limit-like failure
SleepTimeByKind(attempt, is_rate_limit) ==
    IF is_rate_limit THEN 2 * WaitTime(attempt) ELSE WaitTime(attempt)

\* lines 354-359: is_rate_limit picks the wording of the warning, the sleep is
\* asyncio.sleep(wait_time) after either
SleepTime(attempt, is_rate_limit) == WaitTime(attempt)

\* the except branch of the retry loop, lines 348-362: the logger call made and
\* what the coroutine does next
ExceptBranch(attempt, is_rate_limit) ==
    IF RetryAgain(attempt)
    THEN [log |-> IF is_rate_limit THEN "warning: hit rate limit" ELSE "warning: failed",
          next |-> "sleep", wait |-> SleepTime(attempt, is_rate_limit)]
    ELSE [log |-> "error: failed after attempts", next |-> "raise", wait |-> 0]

\* the prompt of an attempt counted although the call raised
TokensAfterFailureCounted(tok, plen) ==
    [prompt |-> tok.prompt + EstimateTokens(plen), completion |-> tok.completion]

\* lines 344-345 follow the awaited call inside the try: when the call raises
\* they are skipped and tokens_dict stays as it was
TokensAfterFailure(tok, plen) == tok

(***************************************************************************)
(* _summarize_chunk_async, lines 348-362: the backend call raises.  Before *)
(* the last attempt the task sleeps wait_time, still inside the            *)
(* `async with`; on the last attempt it re-raises and releases.            *)
(***************************************************************************)
BackendFail(i) ==
    /\ tasks[i].st = "call"
    /\ ~GatherCancels(tasks)
    /\ failures < MaxFailures
    /\ failures' = failures + 1
    /\ \E is_rate_limit \in BOOLEAN :
         LET handled == ExceptBranch(tasks[i].attempt, is_rate_limit)
         IN IF handled.next = "sleep"
            THEN /\ tasks' = [tasks EXCEPT ![i].st = "sleep",
                                           ![i].waits = Append(@, handled.wait)]
                 /\ UNCHANGED semaphore
            ELSE /\ tasks' = [tasks EXCEPT ![i].st = "failed"]
                 /\ semaphore' = semaphore + 1
    /\ total_tokens' = TokensAfterFailure(total_tokens,
                                          ChunkPromptLen(chunks[i], i - 1, Len(chunks)))
    /\ UNCHANGED calleeVars
    /\ UNCHANGED <<model_configured, chunk_text_awaitable, pc, depth, cur_len, chunks,
                   results, merged_text, final_summary, events,
                   rounds, ledger, out_of_order>>

(***************************************************************************)
(* _summarize_chunk_async, line 359 and back to line 340: the sleep ends   *)
(* and the next attempt's backend call is issued.                          *)
(***************************************************************************)
SleepDone(i) ==
    /\ tasks[i].st = "sleep"
    /\ ~GatherCancels(tasks)
    /\ tasks' = [tasks EXCEPT ![i].st = "call", ![i].attempt = @ + 1, ![i].calls = @ + 1]
    /\ UNCHANGED calleeVars
    /\ UNCHANGED <<model_configured, chunk_text_awaitable, pc, depth, cur_len, chunks,
                   semaphore, results, merged_text, total_tokens, final_summary, events,
                   rounds, failures, ledger, out_of_order>>

\* gather(..., return_exceptions=True): a raised chunk counts as completed
GatherDoneSkipping(ts) == \A i \in DOMAIN ts : ts[i].st \in {"done", "failed"}

\* asyncio.wait(..., return_when=FIRST_COMPLETED): one result is enough
GatherDoneFirstCompleted(ts) == \E i \in DOMAIN ts : ts[i].st = "done"

\* gather returns once every awaitable has a result
GatherDone(ts) == \A i \in DOMAIN ts : ts[i].st = "done"

\* gather raises as soon as one awaitable has raised
GatherRaised(ts) == \E i \in DOMAIN ts : ts[i].st = "failed"

(***************************************************************************)
(* process_text, lines 211-212: gather returns chunk_summaries.            *)
(***************************************************************************)
GatherSuccess ==
    /\ pc = "gather"
    /\ GatherDone(tasks)
    /\ events' = Append(events, LogEvent("all_processed"))
    /\ pc' = "merge"
    /\ UNCHANGED calleeVars
    /\ UNCHANGED <<model_configured, chunk_text_awaitable, depth, cur_len, chunks, tasks,
                   semaphore, results, merged_text, total_tokens, final_summary,
                   rounds, failures, ledger, out_of_order>>

(***************************************************************************)
(* process_text, lines 213-214: gather raises; the error event is yielded. *)
(***************************************************************************)
GatherFail ==
    /\ pc = "gather"
    /\ GatherRaised(tasks)
    /\ events' = Append(events, ErrorEvent("Parallel processing failed"))
    /\ pc' = "reraise"
    /\ UNCHANGED calleeVars
    /\ UNCHANGED <<model_configured, chunk_text_awaitable, depth, cur_len, chunks, tasks,
                   semaphore, results, merged_text, total_tokens, final_summary,
                   rounds, failures, ledger, out_of_order>>

(***************************************************************************)
(* process_text, line 215 `raise e`, caught by generate_summary_stream at  *)
(* lines 257-259, which yields an error event of its own.                  *)
(***************************************************************************)
\* the branch without its `raise e`: process_text goes on to the merge
ReraiseLeftOut ==
    /\ pc = "reraise"
    /\ pc' = "merge"
    /\ UNCHANGED calleeVars
    /\ UNCHANGED <<model_configured, chunk_text_awaitable, depth, cur_len, chunks, tasks,
                   semaphore, results, merged_text, total_tokens, final_summary, events,
                   rounds, failures, ledger, out_of_order>>

Reraise ==
    /\ pc = "reraise"
    /\ events' = Append(events, ErrorEvent("backend"))
    /\ pc' = "end"
    /\ UNCHANGED calleeVars
    /\ UNCHANGED <<model_configured, chunk_text_awaitable, depth, cur_len, chunks, tasks,
                   semaphore, results, merged_text, total_tokens, final_summary,
                   rounds, failures, ledger, out_of_order>>

\* if len(merged_text) > MAX_SINGLE_CHUNK_SIZE
MustRecurse(mergedLen, d) == mergedLen > MAX_SINGLE_CHUNK_SIZE

(***************************************************************************)
(* process_text, lines 218-230: the join of the summaries, then either the *)
(* recursive call on the joined text or the merge call.                    *)
(***************************************************************************)
Merge ==
    /\ pc = "merge"
    /\ merged_text' = results
    /\ IF MustRecurse(JoinLen(results), depth)
       THEN /\ events' = events \o <<LogEvent("merging"), LogEvent("recursing")>>
            /\ depth' = depth + 1
            /\ cur_len' = JoinLen(results)
            /\ pc' = "entry"
       ELSE /\ events' = events \o <<LogEvent("merging"), LogEvent("finalizing")>>
            /\ pc' = "final_call"
            /\ UNCHANGED <<depth, cur_len>>
    /\ UNCHANGED calleeVars
    /\ UNCHANGED <<model_configured, chunk_text_awaitable, chunks, tasks,
                   semaphore, results, total_tokens, final_summary,
                   rounds, failures, ledger, out_of_order>>

(***************************************************************************)
(* _merge_chunk_summaries_async, lines 382-388, awaited at line 230: one   *)
(* backend call, no retry.                                                 *)
(***************************************************************************)
FinalReturn ==
    /\ pc = "final_call"
    /\ \E rlen \in {ShortResp, LongResp} :
         LET res == [src |-> "merge", depth |-> depth, index |-> 0, len |-> rlen]
             tok == AddTokens(total_tokens, MergePromptLen(results), rlen)
         IN /\ total_tokens' = tok
            /\ ledger' = ledger (+) SetToBag({[plen |-> MergePromptLen(results), rlen |-> rlen]})
            /\ final_summary' = res
            /\ events' = Append(Deliver(events, FinalTextEvent(res)), ResultEvent(res, tok))
    /\ pc' = "end"
    /\ UNCHANGED calleeVars
    /\ UNCHANGED <<model_configured, chunk_text_awaitable, depth, cur_len, chunks, tasks,
                   semaphore, results, merged_text, rounds, failures, out_of_order>>

FinalFail ==
    /\ pc = "final_call"
    /\ failures < MaxFailures
    /\ failures' = failures + 1
    /\ events' = Append(events, ErrorEvent("backend"))
    /\ pc' = "end"
    /\ UNCHANGED calleeVars
    /\ UNCHANGED <<model_configured, chunk_text_awaitable, depth, cur_len, chunks, tasks,
                   semaphore, results, merged_text, total_tokens, final_summary,
                   rounds, ledger, out_of_order>>

Next ==
    \/ StartNoModel
    \/ Start
    \/ Entry
    \/ DirectReturn
    \/ DirectFail
    \/ ChunkingTypeError
    \/ Chunking
    \/ \E i \in DOMAIN tasks : TaskAcquire(i)
    \/ \E i \in DOMAIN tasks : BackendReturn(i)
    \/ \E i \in DOMAIN tasks : BackendFail(i)
    \/ \E i \in DOMAIN tasks : SleepDone(i)
    \/ GatherSuccess
    \/ GatherFail
    \/ Reraise
    \/ Merge
    \/ FinalReturn
    \/ FinalFail

Spec == Init /\ [][Next]_vars

(***************************************************************************)
(* A TextChunker(max_chunk_size, overlap_size) with overlap_size below     *)
(* max_chunk_size, and one call of chunk_text on a text of Texts.          *)
(***************************************************************************)
InitChunker ==
    /\ model_configured = FALSE
    /\ IdlePipeline
    /\ IdleMerge
    /\ IdleTitle
    /\ IdleSync
    /\ IdleExcept
    /\ IdleWorker
    /\ ck_pc = "call"
    /\ ck_text \in Texts
    /\ ck_max \in 1..MaxChunkSize
    /\ ck_overlap \in 0..MaxOverlap
    /\ ck_overlap < ck_max
    /\ ck_chunks = <<>>

CallChunkText ==
    /\ ck_pc = "call"
    /\ ck_chunks' = ChunkText(ck_text, ck_max, ck_overlap)
    /\ ck_pc' = "done"
    /\ UNCHANGED <<ck_text, ck_max, ck_overlap>>
    /\ UNCHANGED <<pipeVars, mgVars, ttVars, syVars, exVars, worker>>

NextChunker == CallChunkText

SpecChunker == InitChunker /\ [][NextChunker]_vars

(***************************************************************************)
(* One call of TextChunker.merge_summaries(summaries, style).              *)
(***************************************************************************)
InitMerge ==
    /\ model_configured = FALSE
    /\ IdlePipeline
    /\ IdleChunker
    /\ IdleTitle
    /\ IdleSync
    /\ IdleExcept
    /\ IdleWorker
    /\ mg_pc = "call"
    /\ mg_summaries \in SummaryLists
    /\ mg_style \in Styles
    /\ mg_out = <<>>

CallMergeSummaries ==
    /\ mg_pc = "call"
    /\ mg_out' = MergeSummaries(mg_summaries, mg_style)
    /\ mg_pc' = "done"
    /\ UNCHANGED <<mg_summaries, mg_style>>
    /\ UNCHANGED <<pipeVars, ckVars, ttVars, syVars, exVars, worker>>

NextMerge == CallMergeSummaries

SpecMerge == InitMerge /\ [][NextMerge]_vars

(***************************************************************************)
(* The terminal text of a run reaching the title extraction of             *)
(* generate_summary_stream, and the same text given to _parse_response.    *)
(***************************************************************************)
InitTitle ==
    /\ model_configured = TRUE
    /\ IdlePipeline
    /\ IdleChunker
    /\ IdleMerge
    /\ IdleSync
    /\ IdleExcept
    /\ IdleWorker
    /\ tt_pc = "call"
    /\ tt_text \in TerminalTexts
    /\ tt_hint \in {<<>>, <<"f", ".", "p", "d", "f">>}
    /\ tt_title = <<>>
    /\ tt_content = <<>>

\* generate_summary_stream, lines 240-255: the title, the content and the
\* result event made of them
StreamResult ==
    /\ tt_pc = "call"
    /\ LET r == ExtractTitle(tt_text) IN
         /\ tt_title' = r.title
         /\ tt_content' = r.content
    /\ tt_pc' = "result"
    /\ UNCHANGED <<tt_text, tt_hint>>
    /\ UNCHANGED <<pipeVars, ckVars, mgVars, syVars, exVars, worker>>

\* _parse_response(response_text, title_hint)
CallParseResponse ==
    /\ tt_pc = "call"
    /\ LET r == ParseResponse(tt_text, tt_hint) IN
         /\ tt_title' = r.title
         /\ tt_content' = r.content
    /\ tt_pc' = "parsed"
    /\ UNCHANGED <<tt_text, tt_hint>>
    /\ UNCHANGED <<pipeVars, ckVars, mgVars, syVars, exVars, worker>>

NextTitle == StreamResult \/ CallParseResponse

SpecTitle == InitTitle /\ [][NextTitle]_vars

(***************************************************************************)
(* The synchronous path: Summarizer.generate_summary of the second         *)
(* Summarizer class (summarizer.py, lines 494-779) with _summarize_single, *)
(* _summarize_with_chunks and _merge_chunk_summaries.  Every backend call  *)
(* blocks; an action is the code from one backend call's outcome up to the *)
(* next backend call or the end of generate_summary.  Tokens are counted   *)
(* in tenths: len(prompt.split()) * 1.3 is 13 tenths a word.               *)
(***************************************************************************)
\* len(prompt.split()) of the prompts around the inserted text
SyncSinglePromptWords == 96
SyncFirstChunkPromptWords == 60
SyncChunkPromptWords == 61

SyncResponses == {[titled |-> t, words |-> SyncRespWords] : t \in BOOLEAN}

InitSync ==
    /\ model_configured \in BOOLEAN
    /\ IdlePipeline
    /\ IdleChunker
    /\ IdleMerge
    /\ IdleTitle
    /\ IdleExcept
    /\ IdleWorker
    /\ sy_pc = "start"
    /\ sy_text \in {[len |-> n, words |-> 2] : n \in TextLens}
    /\ sy_chunks = <<>>
    /\ sy_i = 0
    /\ sy_summaries = <<>>
    /\ sy_title \in {"default", "hint"}
    /\ sy_tokens = [prompt |-> 0, completion |-> 0]
    /\ sy_out = [kind |-> "none"]

Raised(msg) == [kind |-> "raised", error |-> msg]

\* return title, final_summary, int(total_prompt_tokens), int(total_completion_tokens)
Returned(title, summary, tok) ==
    [kind |-> "returned", title |-> title, summary |-> summary,
     prompt_tokens |-> tok.prompt \div 10, completion_tokens |-> tok.completion \div 10]

\* the rest of _summarize_with_chunks once the loop has no chunk left: lines
\* 668-677 up to the return or to the backend call of _merge_chunk_summaries
EndOfChunks(summaries, title, tok) ==
    IF summaries = <<>>
    THEN sy_pc' = "done" /\ sy_out' = Raised("Failed to generate summary from any chunks")
    ELSE IF Len(summaries) = 1
    THEN sy_pc' = "done" /\ sy_out' = Returned(title, summaries[1], tok)
    ELSE sy_pc' = "merge_call" /\ sy_out' = sy_out

\* generate_summary, lines 526-537, and _summarize_with_chunks, lines 626-639,
\* up to the first backend call
SyncStart ==
    /\ sy_pc = "start"
    /\ IF ~model_configured
       THEN /\ sy_pc' = "done"
            /\ sy_out' = Raised("Gemini API key not configured")
            /\ UNCHANGED sy_chunks
       ELSE IF sy_text.len > MAX_SINGLE_CHUNK_SIZE
       THEN \E n \in 0..MaxSyncChunks :
              /\ sy_chunks' = [i \in 1..n |-> i]
              /\ IF n = 0
                 THEN EndOfChunks(<<>>, sy_title, sy_tokens)
                 ELSE sy_pc' = "chunk_call" /\ sy_out' = sy_out
       ELSE /\ sy_pc' = "single_call"
            /\ UNCHANGED <<sy_chunks, sy_out>>
    /\ UNCHANGED <<sy_text, sy_i, sy_summaries, sy_title, sy_tokens>>
    /\ UNCHANGED <<pipeVars, ckVars, mgVars, ttVars, exVars, worker>>

\* _summarize_single, lines 591-610: the response, parsed by _parse_response
SyncSingleReturn ==
    /\ sy_pc = "single_call"
    /\ \E r \in SyncResponses :
         LET tok == [prompt |-> 13 * (SyncSinglePromptWords + sy_text.words),
                     completion |-> 13 * r.words]
             title == IF r.titled THEN "response" ELSE sy_title
         IN /\ sy_tokens' = tok
            /\ sy_title' = title
            /\ sy_out' = Returned(title, [src |-> "single", index |-> 0, stripped |-> r.titled], tok)
    /\ sy_pc' = "done"
    /\ UNCHANGED <<sy_text, sy_chunks, sy_i, sy_summaries>>
    /\ UNCHANGED <<pipeVars, ckVars, mgVars, ttVars, exVars, worker>>

\* _summarize_single, lines 612-614: raise ValueError
SyncSingleFail ==
    /\ sy_pc = "single_call"
    /\ sy_out' = Raised("Failed to generate summary")
    /\ sy_pc' = "done"
    /\ UNCHANGED <<sy_text, sy_chunks, sy_i, sy_summaries, sy_title, sy_tokens>>
    /\ UNCHANGED <<pipeVars, ckVars, mgVars, ttVars, exVars, worker>>

\* _summarize_with_chunks, lines 643-662: the response of chunk i is appended,
\* the first chunk's may give the title, the tokens are added; then the next
\* chunk or the end of the loop
SyncChunkReturn ==
    /\ sy_pc = "chunk_call"
    /\ \E r \in SyncResponses :
         LET first == sy_i = 0
             words == (IF first THEN SyncFirstChunkPromptWords ELSE SyncChunkPromptWords)
                      + sy_chunks[sy_i + 1]
             tok == [prompt |-> sy_tokens.prompt + 13 * words,
                     completion |-> sy_tokens.completion + 13 * r.words]
             title == IF first /\ r.titled THEN "response" ELSE sy_title
             summaries == Append(sy_summaries,
                                 [src |-> "chunk", index |-> sy_i,
                                  stripped |-> first /\ r.titled])
         IN /\ sy_tokens' = tok
            /\ sy_title' = title
            /\ sy_summaries' = summaries
            /\ IF sy_i + 1 < Len(sy_chunks)
               THEN UNCHANGED <<sy_pc, sy_out>>
               ELSE EndOfChunks(summaries, title, tok)
    /\ sy_i' = sy_i + 1
    /\ UNCHANGED <<sy_text, sy_chunks>>
    /\ UNCHANGED <<pipeVars, ckVars, mgVars, ttVars, exVars, worker>>

\* _summarize_with_chunks, lines 664-666: the backend call of chunk i raises,
\* the error is logged and the loop continues
SyncChunkFail ==
    /\ sy_pc = "chunk_call"
    /\ IF sy_i + 1 < Len(sy_chunks)
       THEN UNCHANGED <<sy_pc, sy_out>>
       ELSE EndOfChunks(sy_summaries, sy_title, sy_tokens)
    /\ sy_i' = sy_i + 1
    /\ UNCHANGED <<sy_text, sy_chunks, sy_summaries, sy_title, sy_tokens>>
    /\ UNCHANGED <<pipeVars, ckVars, mgVars, ttVars, exVars, worker>>

\* _merge_chunk_summaries, lines 751-759: the merge call returns its text
SyncMergeReturn ==
    /\ sy_pc = "merge_call"
    /\ sy_out' = Returned(sy_title, [src |-> "merge", index |-> 0, stripped |-> FALSE],
                          sy_tokens)
    /\ sy_pc' = "done"
    /\ UNCHANGED <<sy_text, sy_chunks, sy_i, sy_summaries, sy_title, sy_tokens>>
    /\ UNCHANGED <<pipeVars, ckVars, mgVars, ttVars, exVars, worker>>

\* the exception of the merge call left to propagate
SyncMergeFailRaising ==
    /\ sy_pc = "merge_call"
    /\ sy_out' = Raised("backend")
    /\ sy_pc' = "done"
    /\ UNCHANGED <<sy_text, sy_chunks, sy_i, sy_summaries, sy_title, sy_tokens>>
    /\ UNCHANGED <<pipeVars, ckVars, mgVars, ttVars, exVars, worker>>

\* _merge_chunk_summaries, lines 760-762: the merge call raises and the local
\* merge of the chunker is returned
SyncMergeFail ==
    /\ sy_pc = "merge_call"
    /\ sy_out' = Returned(sy_title, [src |-> "local_merge", index |-> 0, stripped |-> FALSE],
                          sy_tokens)
    /\ sy_pc' = "done"
    /\ UNCHANGED <<sy_text, sy_chunks, sy_i, sy_summaries, sy_title, sy_tokens>>
    /\ UNCHANGED <<pipeVars, ckVars, mgVars, ttVars, exVars, worker>>

NextSync ==
    \/ SyncStart
    \/ SyncSingleReturn
    \/ SyncSingleFail
    \/ SyncChunkReturn
    \/ SyncChunkFail
    \/ SyncMergeReturn
    \/ SyncMergeFail

SpecSync == InitSync /\ [][NextSync]_vars

\* every backend call eventually returns or raises, every sleep ends and the
\* event loop keeps running what is ready
(***************************************************************************)
(* The except branch of _summarize_chunk_async run twice at the same       *)
(* attempt, on two exceptions of ErrorTexts.                               *)
(***************************************************************************)
InitExcept ==
    /\ model_configured = FALSE
    /\ IdlePipeline
    /\ IdleChunker
    /\ IdleMerge
    /\ IdleTitle
    /\ IdleSync
    /\ IdleWorker
    /\ ex_pc = "raised"
    /\ ex_attempt \in 0..(MAX_RETRIES - 1)
    /\ ex_errors \in ErrorTexts \X ErrorTexts
    /\ ex_out = <<>>

HandleException ==
    /\ ex_pc = "raised"
    /\ ex_out' = [r \in 1..2 |-> ExceptBranch(ex_attempt, IsRateLimit(ex_errors[r]))]
    /\ ex_pc' = "handled"
    /\ UNCHANGED <<ex_attempt, ex_errors>>
    /\ UNCHANGED <<pipeVars, ckVars, mgVars, ttVars, syVars, worker>>

NextExcept == HandleException

SpecExcept == InitExcept /\ [][NextExcept]_vars

(***************************************************************************)
(* The queue worker: callback of worker.py (lines 42-104), called by pika  *)
(* for one message at a time (basic_qos(prefetch_count=1), line 106).  The *)
(* callback is synchronous; an action is one stage of it.  worker.tag is   *)
(* the delivery tag of the message in hand, and a task is identified with  *)
(* its delivery: file_id |-> tag.  worker.has_stream says whether the      *)
(* Summarizer object has validate_pdf and generate_summary_stream: the     *)
(* class of summarizer.py line 116 has them, the class of line 494, which  *)
(* rebinds the name and is what `from services import Summarizer` gives,   *)
(* has not, and line 71 then raises AttributeError.                        *)
(***************************************************************************)
InitWorker ==
    /\ model_configured = FALSE
    /\ IdlePipeline
    /\ IdleChunker
    /\ IdleMerge
    /\ IdleTitle
    /\ IdleSync
    /\ IdleExcept
    /\ \E has_stream \in BOOLEAN :
         worker = [pc |-> "consuming", has_stream |-> has_stream, tag |-> 0,
                   stream |-> <<>>, published |-> <<>>, raised |-> {},
                   acked |-> <<>>]

\* lines 42-61: json.loads(body) raises on a body that is not JSON, else the
\* first "processing" event is published
Callback ==
    /\ worker.pc = "consuming"
    /\ worker.tag < MaxMessages
    /\ \E body_is_json \in BOOLEAN :
         worker' = [worker EXCEPT
                      !.tag = @ + 1,
                      !.published =
                          IF body_is_json
                          THEN Append(@, [file_id |-> worker.tag + 1,
                                          status |-> "processing"])
                          ELSE @,
                      !.pc = IF body_is_json THEN "process_task" ELSE "except"]
    /\ UNCHANGED <<pipeVars, ckVars, mgVars, ttVars, syVars, exVars>>

\* lines 63-83: download, validate, extract, and the call that creates the
\* summary stream; the stream is the sequence of the kinds of its events
ProcessTask ==
    /\ worker.pc = "process_task"
    /\ LET processing == [file_id |-> worker.tag, status |-> "processing"]
           failed == [file_id |-> worker.tag, status |-> "failed"]
           Logs(n) == [i \in 1..n |-> "log"]
           \* generate_summary_stream: logs, then a result, an error (lines
           \* 169-171, 257-259), or the error of lines 213-215 followed by
           \* the error of lines 257-259
           StreamRuns == {Logs(n) \o end :
                            n \in 0..MaxStreamLogs,
                            end \in {<<"result">>, <<"error">>,
                                     <<"error", "error">>}}
       IN \E download \in {"raises", "bytes"}, pdf \in {"invalid", "valid"},
             text \in {"raises", "blank", "text"}, run \in StreamRuns :
            worker' =
              IF download = "raises" \/ ~worker.has_stream
              THEN [worker EXCEPT !.pc = "except"]
              ELSE IF pdf = "invalid"
              THEN [worker EXCEPT !.published = Append(@, failed),
                                  !.pc = "ack"]
              ELSE IF text = "raises"
              THEN [worker EXCEPT !.published = Append(@, processing),
                                  !.pc = "except"]
              ELSE IF text = "blank"
              THEN [worker EXCEPT !.published = @ \o <<processing, failed>>,
                                  !.pc = "ack"]
              ELSE [worker EXCEPT !.published = Append(@, processing),
                                  !.stream = run,
                                  !.pc = "stream"]
    /\ UNCHANGED <<pipeVars, ckVars, mgVars, ttVars, syVars, exVars>>

\* lines 83-95: one pass of the loop over the stream; process_task returns
\* when the stream is exhausted
PublishStreamEvent ==
    /\ worker.pc = "stream"
    /\ worker.stream # <<>>
    /\ LET event == Head(worker.stream)
           status == IF event = "result" THEN "completed"
                     ELSE IF event = "error" THEN "failed"
                     ELSE "processing"
       IN worker' = [worker EXCEPT
                       !.published = Append(@, [file_id |-> worker.tag,
                                                status |-> status]),
                       !.stream = Tail(@),
                       !.pc = IF Tail(worker.stream) = <<>> THEN "ack"
                              ELSE "stream"]
    /\ UNCHANGED <<pipeVars, ckVars, mgVars, ttVars, syVars, exVars>>

\* variant: the acknowledgement as the last statement of the try block
BasicAckInTry ==
    /\ worker.pc \in {"except", "ack"}
    /\ worker' = [worker EXCEPT
                    !.raised = IF worker.pc = "except" THEN @ \cup {worker.tag}
                               ELSE @,
                    !.acked = IF worker.pc = "except" THEN @
                              ELSE Append(@, worker.tag),
                    !.pc = "consuming"]
    /\ UNCHANGED <<pipeVars, ckVars, mgVars, ttVars, syVars, exVars>>

\* lines 99-104: the handler of `except Exception` only logs (line 102 is
\* commented out), then basic_ack, which follows the try statement
BasicAck ==
    /\ worker.pc \in {"except", "ack"}
    /\ worker' = [worker EXCEPT
                    !.raised = IF worker.pc = "except" THEN @ \cup {worker.tag}
                               ELSE @,
                    !.acked = Append(@, worker.tag),
                    !.pc = "consuming"]
    /\ UNCHANGED <<pipeVars, ckVars, mgVars, ttVars, syVars, exVars>>

NextWorker == Callback \/ ProcessTask \/ PublishStreamEvent \/ BasicAck

SpecWorker == InitWorker /\ [][NextWorker]_vars

FairSpec == Spec /\ WF_vars(Next)

(***************************************************************************)
(* Properties of the streaming pipeline                                    *)
(***************************************************************************)
CountKind(k) == Cardinality({i \in DOMAIN events : events[i].kind = k})

Terminals == CountKind("result") + CountKind("error")

InFlight == Cardinality({i \in DOMAIN tasks : tasks[i].st = "call"})

SomeFailed == \E i \in DOMAIN tasks : tasks[i].st = "failed"

RECURSIVE PromptTotal(_, _)
PromptTotal(B, S) ==
    IF S = {} THEN 0
    ELSE LET r == CHOOSE r \in S : TRUE
         IN B[r] * EstimateTokens(r.plen) + PromptTotal(B, S \ {r})

RECURSIVE CompletionTotal(_, _)
CompletionTotal(B, S) ==
    IF S = {} THEN 0
    ELSE LET r == CHOOSE r \in S : TRUE
         IN B[r] * EstimateTokens(r.rlen) + CompletionTotal(B, S \ {r})

C2_FailedBatchIsFatal ==
    SomeFailed =>
        /\ pc \in {"gather", "reraise", "end"}
        /\ CountKind("result") = 0
        /\ \A k \in DOMAIN merged_text : merged_text[k].depth # depth
        /\ pc = "end" => CountKind("error") >= 1

C2_Witness ==
    /\ pc = "end"
    /\ \E i \in DOMAIN tasks : tasks[i].st = "failed" /\ tasks[i].calls = MAX_RETRIES
    /\ \E j \in DOMAIN tasks : tasks[j].st = "done"
    /\ CountKind("error") >= 1

\* C3: at most MAX_CONCURRENT_CHUNKS chunk backend calls are in flight, and
\* outside the gather of a batch (entry checks, chunking, merge, direct and merge
\* calls, hence at the start of a deeper level) every chunk operation is done.
C3_AtMostNInFlight ==
    /\ InFlight <= MAX_CONCURRENT_CHUNKS
    /\ pc \in {"entry", "chunking", "merge", "direct_call", "final_call"}
         => \A i \in DOMAIN tasks : tasks[i].st = "done"

C3_Witness ==
    /\ InFlight = MAX_CONCURRENT_CHUNKS
    /\ \E i \in DOMAIN tasks : tasks[i].st = "wait"

\* C4: the joined text holds the summaries of chunks 0..n-1 in index order,
\* one per chunk of the batch, and the text handed to a recursive level is the
\* blank-line join of exactly these summaries.
C4_MergedInIndexOrder ==
    /\ \A k \in DOMAIN merged_text :
         merged_text[k].src = "chunk" /\ merged_text[k].index = k - 1
    /\ pc = "final_call" =>
         /\ Len(merged_text) = Len(chunks)
         /\ \A k \in DOMAIN merged_text : merged_text[k].depth = depth
    /\ (pc = "entry" /\ depth > 1) =>
         /\ Len(merged_text) = Len(chunks)
         /\ cur_len = JoinLen(merged_text)

C4_Witness ==
    /\ pc = "final_call"
    /\ depth = 1
    /\ out_of_order
    /\ Len(merged_text) >= 3

\* C5: a chunk operation that has raised made exactly MAX_RETRIES backend
\* calls, slept 2 s after the first failure and 4 s after the second and nothing
\* after the third, and left no result.
C5_ThreeAttemptsThenRaise ==
    \A i \in DOMAIN tasks :
        tasks[i].st = "failed" =>
            /\ tasks[i].calls = 3
            /\ tasks[i].waits = <<2, 4>>
            /\ results[i] = None

C5_Witness == \E i \in DOMAIN tasks : tasks[i].st = "failed" /\ tasks[i].attempt = 2

\* C6: a run makes at most MAX_RECURSIVE_DEPTH + 1 rounds of process_text and,
\* when every backend call returns or raises, reaches its end with a terminal
\* event delivered.
C6_BoundedRounds ==
    /\ [](rounds <= MAX_RECURSIVE_DEPTH + 1)
    /\ <>(pc = "end" /\ Terminals >= 1)

C6_Witness ==
    /\ pc = "end"
    /\ rounds = MAX_RECURSIVE_DEPTH + 1
    /\ cur_len > MAX_SINGLE_CHUNK_SIZE

\* C7: no step of a run decreases the prompt total or the completion total.
C7_TokensMonotone ==
    [][/\ total_tokens'.prompt >= total_tokens.prompt
       /\ total_tokens'.completion >= total_tokens.completion]_vars

C7_Witness ==
    /\ depth >= 2
    /\ failures >= 1
    /\ pc = "final_call"
    /\ total_tokens.prompt > 0

\* C8: the totals of a result event are the sums of the estimates of all the
\* successful backend calls of the run.
C8_ResultTotalsAreSums ==
    \A k \in DOMAIN events :
        events[k].kind = "result" =>
            /\ events[k].prompt_tokens = PromptTotal(ledger, DOMAIN ledger)
            /\ events[k].completion_tokens = CompletionTotal(ledger, DOMAIN ledger)

C8_Witness ==
    /\ CountKind("result") = 1
    /\ depth >= 2
    /\ out_of_order
    /\ failures >= 1

(***************************************************************************)
(* Properties of TextChunker.chunk_text                                    *)
(***************************************************************************)
\* C9: every chunk of a returned sequence is at most max_chunk_size long.
C9_ChunksWithinMaxSize ==
    ck_pc = "done" => \A k \in DOMAIN ck_chunks : Len(ck_chunks[k]) <= ck_max

\* C10 as stated: every text no longer than max_chunk_size comes back as the
\* one-element sequence holding it.
C10_SmallTextIsSingleChunk ==
    (ck_pc = "done" /\ Len(ck_text) <= ck_max) => ck_chunks = <<ck_text>>

\* C10: every non-empty text no longer than max_chunk_size comes back as the
\* one-element sequence holding it, unchanged.
C10_NonEmptySmallTextIsSingleChunk ==
    (ck_pc = "done" /\ ck_text # <<>> /\ Len(ck_text) <= ck_max) => ck_chunks = <<ck_text>>

C10_Witness ==
    /\ ck_pc = "done"
    /\ Len(ck_text) = ck_max
    /\ ck_max >= 2
    /\ IsSpace(ck_text[1])
    /\ ck_chunks = <<ck_text>>

\* C21: chunk_text("") returns the empty sequence, whatever the chunker's sizes,
\* never the sequence holding the empty text.
C21_EmptyTextGivesNoChunk ==
    (ck_pc = "done" /\ ck_text = <<>>) => ck_chunks = <<>>

C21_Witness ==
    /\ ck_pc = "done"
    /\ ck_text = <<>>
    /\ ck_max = MaxChunkSize
    /\ Len(ck_chunks) = 0

\* the text is one paragraph of one sentence: it holds no whitespace
SingleSentence(text) == \A p \in DOMAIN text : ~IsSpace(text[p])

\* C29: a single sentence longer than max_chunk_size comes back as the windows
\* that start at the offsets 0, s, 2s, ... below its length, s = max_chunk_size -
\* overlap_size, each max_chunk_size long or cut at the end of the sentence, and
\* every character of the sentence lies in one of them.
C29_ForceSplitWindows ==
    (ck_pc = "done" /\ SingleSentence(ck_text) /\ Len(ck_text) > ck_max) =>
        LET stride == ck_max - ck_overlap
            starts == {o \in 0..(Len(ck_text) - 1) : o % stride = 0}
        IN /\ Len(ck_chunks) = Cardinality(starts)
           /\ \A k \in DOMAIN ck_chunks :
                 /\ ck_chunks[k] = SubSeq(ck_text, (k - 1) * stride + 1,
                                          Min((k - 1) * stride + ck_max, Len(ck_text)))
                 /\ Len(ck_chunks[k]) <= ck_max
           /\ \A p \in DOMAIN ck_text :
                 \E k \in DOMAIN ck_chunks :
                     /\ (k - 1) * stride < p
                     /\ p <= (k - 1) * stride + Len(ck_chunks[k])

C29_Witness ==
    /\ ck_pc = "done"
    /\ SingleSentence(ck_text)
    /\ Len(ck_text) = MaxTextLen
    /\ ck_overlap = 1
    /\ ck_max = 3
    /\ Len(ck_chunks) >= 3
    /\ Len(ck_chunks[Len(ck_chunks)]) < ck_max

\* the pieces chunk_text works with, in document order: a paragraph that fits,
\* else its sentences, a sentence that does not fit as its windows
RECURSIVE SentenceUnits(_, _, _)
SentenceUnits(sentences, maxSize, overlap) ==
    IF sentences = <<>> THEN <<>>
    ELSE (IF Len(Head(sentences)) > maxSize
          THEN ForceSplit(Head(sentences), 0, maxSize, overlap)
          ELSE <<Head(sentences)>>)
         \o SentenceUnits(Tail(sentences), maxSize, overlap)

RECURSIVE ParagraphUnits(_, _, _)
ParagraphUnits(paragraphs, maxSize, overlap) ==
    IF paragraphs = <<>> THEN <<>>
    ELSE (IF Len(Head(paragraphs)) > maxSize
          THEN SentenceUnits(SplitSentences(Head(paragraphs), <<>>, ""), maxSize, overlap)
          ELSE <<Head(paragraphs)>>)
         \o ParagraphUnits(Tail(paragraphs), maxSize, overlap)

\* every unit lies inside a chunk, the chunks taken in non-decreasing order
RECURSIVE PlacedInOrder(_, _, _)
PlacedInOrder(units, chunkList, from) ==
    IF units = <<>> THEN TRUE
    ELSE \E c \in from..Len(chunkList) :
            /\ Contains(chunkList[c], Head(units))
            /\ PlacedInOrder(Tail(units), chunkList, c)

\* occurrences of the character c in the text, in the chunks
CountIn(text, c) == Cardinality({p \in DOMAIN text : text[p] = c})

RECURSIVE CountInAll(_, _)
CountInAll(chunkList, c) ==
    IF chunkList = <<>> THEN 0
    ELSE CountIn(Head(chunkList), c) + CountInAll(Tail(chunkList), c)

\* the units without the whitespace at their two ends
StripAll(units) == [k \in DOMAIN units |-> Strip(units[k])]

\* C35 as stated: for a text longer than max_chunk_size every non-blank
\* paragraph, or every sentence or force-split window of a paragraph that does
\* not fit, lies as it is inside a returned chunk, the chunks following the
\* document order.
C35_UnitsAppearVerbatim ==
    (ck_pc = "done" /\ Len(ck_text) > ck_max) =>
        PlacedInOrder(ParagraphUnits(SplitBySeparator(ck_text), ck_max, ck_overlap),
                      ck_chunks, 1)

\* C35: for a text longer than max_chunk_size every non-blank paragraph, or
\* every sentence or force-split window of a paragraph that does not fit, lies
\* inside a returned chunk once the whitespace at its two ends is removed, the
\* chunks following the document order, and no non-blank character of the text
\* is missing from the chunks.
C35_ChunkingLosesNoContent ==
    (ck_pc = "done" /\ Len(ck_text) > ck_max) =>
        LET units == ParagraphUnits(SplitBySeparator(ck_text), ck_max, ck_overlap)
        IN /\ PlacedInOrder(StripAll(units), ck_chunks, 1)
           /\ \A c \in Alphabet :
                 ~IsSpace(c) => CountInAll(ck_chunks, c) >= CountIn(ck_text, c)

C35_Witness ==
    /\ ck_pc = "done"
    /\ Len(ck_text) > ck_max
    /\ Len(SplitBySeparator(ck_text)) >= 2
    /\ Len(ck_chunks) >= 3
    /\ LET units == ParagraphUnits(SplitBySeparator(ck_text), ck_max, ck_overlap)
       IN /\ Len(units) >= 3
          /\ \E k \in DOMAIN units : Strip(units[k]) # units[k] /\ Strip(units[k]) # <<>>

\* s ends with the first n characters of t
OverlapsBy(s, t, n) == SubSeq(s, Len(s) - n + 1, Len(s)) = SubSeq(t, 1, n)

\* C11: with a positive overlap_size, when more than one chunk is returned every
\* chunk after the first begins with a non-empty piece of text that ends the
\* chunk before it.
C11_LaterChunksBeginWithOverlap ==
    (ck_pc = "done" /\ ck_overlap >= 1 /\ Len(ck_chunks) > 1) =>
        \A k \in 2..Len(ck_chunks) :
            \E n \in 1..Min(Len(ck_chunks[k - 1]), Len(ck_chunks[k])) :
                OverlapsBy(ck_chunks[k - 1], ck_chunks[k], n)

(***************************************************************************)
(* Properties of TextChunker.merge_summaries                               *)
(***************************************************************************)
\* C12: whatever the style, merging no summary gives the empty text and merging
\* one summary gives that summary unchanged.
C12_MergeOfNoneAndOfOne ==
    mg_pc = "done" =>
        /\ mg_summaries = <<>> => mg_out = <<>>
        /\ Len(mg_summaries) = 1 => mg_out = mg_summaries[1]

C12_Witness ==
    /\ mg_pc = "done"
    /\ mg_style = "bullet_points"
    /\ Len(mg_summaries) = 1
    /\ Len(ExtractBullets(mg_summaries[1])) >= 2
    /\ mg_out = mg_summaries[1]

\* the bullets of a merged text: its lines that carry the bullet prefix
RECURSIVE BulletLines(_)
BulletLines(lines) ==
    IF lines = <<>> THEN <<>>
    ELSE IF StartsWith(Head(lines), <<Bullet, " ">>)
         THEN <<SubSeq(Head(lines), 3, Len(Head(lines)))>> \o BulletLines(Tail(lines))
         ELSE BulletLines(Tail(lines))

OutputBullets == BulletLines(SplitLines(mg_out))

\* lowercased and punctuation-stripped
NormalForm(bullet) == RemovePunctuation(LowerText(bullet))

\* C13: a bullet_points merge of two or more summaries holds at most 20 bullets
\* and no two of them have the same lowercased, punctuation-stripped form.
C13_AtMostTwentyDistinctBullets ==
    (mg_pc = "done" /\ mg_style = "bullet_points" /\ Len(mg_summaries) >= 2) =>
        LET bullets == OutputBullets
            forms == [i \in DOMAIN bullets |-> NormalForm(bullets[i])]
        IN /\ Len(bullets) <= 20
           /\ \A i, j \in DOMAIN forms : i # j => forms[i] # forms[j]

C13_Witness ==
    /\ mg_pc = "done"
    /\ mg_style = "bullet_points"
    /\ Len(mg_summaries) = 2
    /\ Len(DeduplicateBullets(AllBullets(mg_summaries))) > 20
    /\ Len(AllBullets(mg_summaries)) > Len(DeduplicateBullets(AllBullets(mg_summaries)))
    /\ Len(OutputBullets) = 20

(***************************************************************************)
(* Properties of the title extraction                                      *)
(***************************************************************************)
HasMarkerPair == Contains(tt_text, TitleMarker) /\ Contains(tt_text, SummaryMarker)

\* C14: when the terminal text holds the TITLE: / SUMMARY: pair, the title of
\* the result event is the first line of the text before SUMMARY: with the TITLE:
\* marker removed, cut to at most 100 characters, and the content is the text
\* after SUMMARY:.
C14_TitleIsFirstLineCutTo100 ==
    (tt_pc = "result" /\ HasMarkerPair) =>
        /\ tt_title = StreamTitleCut(SplitOnce(tt_text, SummaryMarker)[1])
        /\ Len(tt_title) <= 100
        /\ tt_content = Strip(SplitOnce(tt_text, SummaryMarker)[2])

\* C15: a terminal text without the TITLE: marker or without the SUMMARY: marker
\* still gives a result event, with the title "Document Summary" and the whole
\* text, unchanged, as content.
C15_MissingMarkersGiveDefaultTitle ==
    (tt_pc = "result" /\ ~HasMarkerPair) =>
        /\ tt_title = DefaultTitle
        /\ tt_content = tt_text

C15_Witness ==
    /\ tt_pc = "result"
    /\ Contains(tt_text, TitleMarker)
    /\ ~Contains(tt_text, SummaryMarker)
    /\ Strip(tt_text) # tt_text
    /\ tt_title = DefaultTitle
    /\ tt_content = tt_text

(***************************************************************************)
(* Properties of the Direct call, the recursion and the token estimates    *)
(***************************************************************************)
\* the run ended with the error of a failed Direct call
DirectCallFailed ==
    /\ pc = "end"
    /\ Len(events) >= 2
    /\ events[Len(events)].kind = "error"
    /\ events[Len(events) - 1] \in {LogEvent("single"), LogEvent("max_depth")}

\* C16: the Direct call is retried: a run that fails in the Direct state has
\* seen MAX_RETRIES failed backend attempts, never fewer.
C16_DirectCallIsRetried == DirectCallFailed => failures >= MAX_RETRIES

RoundedQuarter(n) ==
    LET q == n \div 4
        r == n % 4
    IN IF r < 2 THEN q
       ELSE IF r > 2 THEN q + 1
       ELSE IF q % 2 = 0 THEN q ELSE q + 1

RECURSIVE RoundedPromptTotal(_, _)
RoundedPromptTotal(B, S) ==
    IF S = {} THEN 0
    ELSE LET r == CHOOSE r \in S : TRUE
         IN B[r] * RoundedQuarter(r.plen) + RoundedPromptTotal(B, S \ {r})

RECURSIVE RoundedCompletionTotal(_, _)
RoundedCompletionTotal(B, S) ==
    IF S = {} THEN 0
    ELSE LET r == CHOOSE r \in S : TRUE
         IN B[r] * RoundedQuarter(r.rlen) + RoundedCompletionTotal(B, S \ {r})

\* C20: the totals are the sums, over the successful backend calls, of
\* round(len(prompt) / 4) and of round(len(response text) / 4).
C20_EstimatesAreRoundedQuarters ==
    /\ total_tokens.prompt = RoundedPromptTotal(ledger, DOMAIN ledger)
    /\ total_tokens.completion = RoundedCompletionTotal(ledger, DOMAIN ledger)

(***************************************************************************)
(* Properties of the synchronous path                                      *)
(***************************************************************************)
\* C19: in the chunked synchronous path a chunk whose backend call failed makes
\* generate_summary raise: no result is returned from the summaries of the
\* other chunks.
C19_FailedChunkFailsSummary ==
    (sy_pc = "done" /\ Len(sy_summaries) < Len(sy_chunks)) => sy_out.kind = "raised"

\* C36: the step that ends the merge backend call of the synchronous path ends
\* generate_summary with a returned result, whether the call returned or
\* raised: the summary is the call's text or the local merge of the two or more
\* chunk summaries, under the title and the totals held before the call.
C36_SyncMergeFailureAbsorbed ==
    [][sy_pc = "merge_call" =>
         /\ sy_pc' = "done"
         /\ Len(sy_summaries) >= 2
         /\ sy_out'.kind = "returned"
         /\ sy_out'.summary.src \in {"merge", "local_merge"}
         /\ sy_out'.title = sy_title
         /\ sy_out'.prompt_tokens = sy_tokens.prompt \div 10]_vars

C36_Witness ==
    /\ sy_pc = "done"
    /\ sy_out.kind = "returned"
    /\ sy_out.summary.src = "local_merge"
    /\ Len(sy_summaries) < Len(sy_chunks)

(***************************************************************************)
(* Properties of a batch of chunk operations                               *)
(***************************************************************************)
\* C22: the step that leaves the Chunking stage enters the dispatch of a batch
\* with exactly one fresh chunk operation per produced chunk, the operations
\* indexed like the chunks.
C22_ChunkingStartsOnePerChunk ==
    [][pc = "chunking" =>
         /\ pc' = "gather"
         /\ DOMAIN tasks' = DOMAIN chunks'
         /\ \A i \in DOMAIN tasks' : tasks'[i] = NewTask]_vars

\* C23: while the run joins the summaries of a batch, issues the merge call or
\* re-enters process_text on the joined text, every chunk operation of the batch
\* has returned its summary: none is queued, in flight or in backoff.
C23_MergeAfterAllChunksDone ==
    (pc \in {"merge", "final_call"} \/ (pc = "entry" /\ depth > 1)) =>
        \A i \in DOMAIN tasks : tasks[i].st = "done" /\ results[i] # None

C23_Witness ==
    /\ pc = "final_call"
    /\ Len(tasks) > MAX_CONCURRENT_CHUNKS
    /\ out_of_order
    /\ \E i \in DOMAIN tasks : tasks[i].waits # <<>>

C25_StopsAtFirstSuccess ==
    [][\A i \in DOMAIN tasks :
         tasks[i].st = "done" =>
             /\ tasks[i].calls \in 1..MAX_RETRIES
             /\ tasks[i].calls = tasks[i].attempt + 1
             /\ tasks[i].waits = SubSeq(<<2, 4>>, 1, tasks[i].calls - 1)
             /\ results[i] # None
             /\ results[i].src = "chunk" /\ results[i].index = i - 1
             /\ pc # "chunking" => (tasks'[i] = tasks[i] /\ results'[i] = results[i])]_vars

C25_Witness ==
    /\ \E i \in DOMAIN tasks :
          tasks[i].st = "done" /\ tasks[i].calls = MAX_RETRIES /\ results[i] # None
    /\ \E i \in DOMAIN tasks : tasks[i].st = "done" /\ tasks[i].calls = 1
    /\ \E i \in DOMAIN tasks : tasks[i].st = "call"

(***************************************************************************)
(* Properties of the except branch of the retry loop                       *)
(***************************************************************************)
\* C26: two failures handled at the same attempt lead to the same next step
\* (sleep or raise) and the same wait, whatever the two exceptions are; only the
\* logged wording may differ.
C26_BackoffIgnoresFailureKind ==
    ex_pc = "handled" =>
        /\ ex_out[1].next = ex_out[2].next
        /\ ex_out[1].wait = ex_out[2].wait
        /\ ex_out[1].next = "sleep" <=> ex_attempt < MAX_RETRIES - 1
        /\ ex_out[1].next = "sleep" => ex_out[1].wait = Pow2(ex_attempt + 1)

C26_Witness ==
    /\ ex_pc = "handled"
    /\ IsRateLimit(ex_errors[1])
    /\ ~IsRateLimit(ex_errors[2])
    /\ ex_out[1].log # ex_out[2].log
    /\ ex_out[1].wait = 4

(***************************************************************************)
(* Properties of the events of a streaming run                             *)
(***************************************************************************)
\* C27: every event delivered to the caller is a log, an error or a result
\* event; the final_text event of process_text is never among them, its text is
\* kept as final_summary and delivered inside the result event.
C27_OnlyLogErrorResultDelivered ==
    /\ \A k \in DOMAIN events : events[k].kind \in {"log", "error", "result"}
    /\ \A k \in DOMAIN events :
          events[k].kind = "result" => (final_summary # None /\ events[k].content = final_summary)

C27_Witness ==
    /\ pc = "end"
    /\ final_summary.src = "merge"
    /\ events[Len(events)].kind = "result"
    /\ CountKind("log") > MaxChunks

(***************************************************************************)
(* Properties of the structured and the bullet merge                       *)
(***************************************************************************)
\* the lines of a summary that stand under no heading: all of them when the
\* summary has no heading, else those before its first heading
UnheadedLines(lines) ==
    LET headers == {i \in DOMAIN lines : IsHeader(lines[i])}
    IN IF headers = {} THEN lines
       ELSE SubSeq(lines, 1, (CHOOSE i \in headers : \A j \in headers : i <= j) - 1)

RECURSIVE AllUnheadedLines(_)
AllUnheadedLines(summaries) ==
    IF summaries = <<>> THEN <<>>
    ELSE UnheadedLines(SplitLines(Head(summaries))) \o AllUnheadedLines(Tail(summaries))

\* C28: a detailed merge of two or more summaries ends with the lines that stand
\* under no heading, those before the first heading of a summary with headings
\* included, in input order and cut to the first 30.
C28_UnheadedLinesAreKept ==
    (mg_pc = "done" /\ mg_style = "detailed" /\ Len(mg_summaries) >= 2) =>
        LET other == AllUnheadedLines(mg_summaries)
            kept == SubSeq(other, 1, Min(OtherLimit, Len(other)))
        IN other # <<>> => EndsWith(mg_out, Join(kept, <<NL>>))

\* the positions of the candidates that survive: the normalized form is longer
\* than 10 characters and no earlier candidate has it
Survivors(forms) ==
    {i \in DOMAIN forms : Len(forms[i]) > 10 /\ \A j \in 1..(i - 1) : forms[j] # forms[i]}

\* C30: a bullet_points merge of two or more summaries is the lines "• b" for the
\* first 20 surviving candidates b, in the order the candidates come in the
\* input; a later duplicate neither replaces nor moves the bullet first seen.
C30_FirstSeenBulletsInOrder ==
    (mg_pc = "done" /\ mg_style = "bullet_points" /\ Len(mg_summaries) >= 2) =>
        LET candidates == AllBullets(mg_summaries)
            forms == [i \in DOMAIN candidates |-> NormalForm(candidates[i])]
            alive == Survivors(forms)
            position == [k \in 1..Min(20, Cardinality(alive)) |->
                            CHOOSE i \in alive : Cardinality({j \in alive : j < i}) = k - 1]
        IN mg_out = Join([k \in DOMAIN position |-> <<Bullet, " ">> \o candidates[position[k]]],
                         <<NL>>)

C30_Witness ==
    /\ mg_pc = "done"
    /\ mg_style = "bullet_points"
    /\ Len(mg_summaries) = 2
    /\ LET candidates == AllBullets(mg_summaries)
           forms == [i \in DOMAIN candidates |-> NormalForm(candidates[i])]
       IN /\ \E i \in DOMAIN forms : Len(forms[i]) \in 1..10
          /\ \E i, j \in DOMAIN forms : i < j /\ forms[i] = forms[j] /\ Len(forms[i]) > 10
          /\ candidates[1] # candidates[Len(candidates)]
          /\ Cardinality(Survivors(forms)) \in 3..19
    /\ Len(OutputBullets) >= 3

(***************************************************************************)
(* Properties of the concurrency slots and the token totals                *)
(***************************************************************************)
\* the chunk operations inside `async with semaphore`: calling or in backoff
Holding == {i \in DOMAIN tasks : tasks[i].st \in {"call", "sleep"}}

\* C31: the slots taken from the limiter of a batch are exactly those of the
\* chunk operations that are calling the backend or waiting in backoff, so at
\* most MAX_CONCURRENT_CHUNKS operations are in that phase; an operation that
\* returned or raised holds none, and a batch whose operations have all ended
\* leaves every slot free.
C31_SlotHeldUntilEnd ==
    tasks # <<>> =>
        /\ semaphore = MAX_CONCURRENT_CHUNKS - Cardinality(Holding)
        /\ Cardinality(Holding) <= MAX_CONCURRENT_CHUNKS
        /\ (\A i \in DOMAIN tasks : tasks[i].st \in {"done", "failed"})
              => semaphore = MAX_CONCURRENT_CHUNKS

C31_Witness ==
    /\ semaphore = 0
    /\ \E i \in DOMAIN tasks : tasks[i].st = "sleep"
    /\ \E i \in DOMAIN tasks : tasks[i].st = "wait"
    /\ Cardinality(Holding) = MAX_CONCURRENT_CHUNKS

\* C32: a step in which a backend attempt fails leaves both totals as they
\* were; the totals change only in a step in which one call returns, by the
\* estimates of that call, and for a chunk operation that is the single step
\* that ends it, so a permanently failed chunk never adds anything.
C32_FailedAttemptCountsNothing ==
    [][/\ failures' > failures => total_tokens' = total_tokens
       /\ \A i \in DOMAIN tasks :
             (pc' = pc /\ tasks[i].st = "call" /\ tasks'[i].st \in {"sleep", "failed"})
                 => total_tokens' = total_tokens
       /\ total_tokens' # total_tokens =>
             \/ pc \in {"direct_call", "final_call"} /\ pc' = "end"
             \/ \E i \in DOMAIN tasks :
                  /\ tasks[i].st = "call" /\ tasks'[i].st = "done"
                  /\ \A j \in DOMAIN tasks \ {i} : tasks'[j] = tasks[j]
                  /\ total_tokens'.prompt = total_tokens.prompt
                        + EstimateTokens(ChunkPromptLen(chunks[i], i - 1, Len(chunks)))
                  /\ total_tokens'.completion = total_tokens.completion
                        + EstimateTokens(results'[i].len)]_vars

C32_Witness ==
    /\ \E i \in DOMAIN tasks : tasks[i].st = "done" /\ tasks[i].calls = MAX_RETRIES
    /\ Cardinality(DOMAIN ledger) = 1
    /\ total_tokens.prompt = EstimateTokens(ChunkPromptLen(chunks[1], 0, Len(chunks)))
    /\ failures = 2

(***************************************************************************)
(* Properties of the events of a run, continued                            *)
(***************************************************************************)
\* C33: a run of a Summarizer without a model delivers the one event
\* error "Gemini API key not configured" and is over: no log, no result, no
\* backend call (none returned, none failed), no chunking, no chunk operation.
C33_NoModelOneError ==
    (~model_configured /\ pc # "idle") =>
        /\ pc \in {"start", "end"}
        /\ pc = "start" => events = <<>>
        /\ pc = "end" => events = <<ErrorEvent("Gemini API key not configured")>>
        /\ ledger = EmptyBag /\ failures = 0
        /\ rounds = 0 /\ chunks = <<>> /\ tasks = <<>>

C33_Witness ==
    /\ ~model_configured
    /\ pc = "end"
    /\ cur_len > MAX_SINGLE_CHUNK_SIZE
    /\ Len(events) = 1

\* C34: no log event follows a result or an error event, no run holds both an
\* error and a result event, and the last event of a finished run is a result
\* or an error event.
C34_TerminalEventIsLast ==
    /\ \A j, k \in DOMAIN events :
          (j < k /\ events[j].kind \in {"result", "error"}) => events[k].kind # "log"
    /\ ~(CountKind("error") > 0 /\ CountKind("result") > 0)
    /\ pc = "end" => events[Len(events)].kind \in {"result", "error"}

C34_Witness ==
    /\ pc = "end"
    /\ CountKind("error") = 2
    /\ events[Len(events) - 1].kind = "error"
    /\ \E i \in DOMAIN tasks : tasks[i].st = "call"


(***************************************************************************)
(* Properties of the queue worker                                          *)
(***************************************************************************)
\* the messages whose callback has ended
Ended == IF worker.pc = "consuming" THEN worker.tag ELSE worker.tag - 1

StatusesOf(file_id, statuses) ==
    Cardinality({i \in DOMAIN worker.published :
                   /\ worker.published[i].file_id = file_id
                   /\ worker.published[i].status \in statuses})

\* C37: every received message is acknowledged exactly once, and only after
\* its processing attempt has ended, whether the attempt completed,
\* published a failure or raised an exception: the acknowledged tags are
\* exactly the tags of the messages whose callback has ended, once each.
C37_AckedOnceAfterAttempt ==
    worker.pc # "idle" =>
        /\ Len(worker.acked) = Ended
        /\ \A i \in DOMAIN worker.acked : worker.acked[i] = i

C37_Witness ==
    /\ Len(worker.acked) = 2
    /\ worker.acked[1] \in worker.raised
    /\ StatusesOf(worker.acked[2], {"completed"}) = 1

\* C38: for every acknowledged task message (a body that parsed, so that
\* its file_id is known) exactly one terminal status, "completed" or
\* "failed", has been published for its file_id, also when download,
\* validation, extraction or summarization raises or the summarizer emits
\* an error.
C38_OneTerminalStatusPerAck ==
    \A i \in DOMAIN worker.acked :
        StatusesOf(worker.acked[i], {"processing"}) > 0 =>
            StatusesOf(worker.acked[i], {"completed", "failed"}) = 1

====
